---- MODULE Spec2Model ----
(***************************************************************************)
(* Pile (marc-dantas/pile): a stack-oriented language.                     *)
(*                                                                         *)
(* The module models                                                       *)
(*   - the bytecode compiler of src/src/compiler.rs (Compiler::compile),   *)
(*   - the stack VM that runs the compiled instructions.  Its source       *)
(*     (Executor) is not among the repository files at hand, so it is      *)
(*     modelled from section 4.4 of the design,                            *)
(*   - the tree-walking Runtime of src/src/runtime.rs,                     *)
(*   - the parser of src/src/parser.rs and the lexer of src/src/lexer.rs.  *)
(*                                                                         *)
(* Specifications:                                                         *)
(*   Spec      compile a tree, then run the instructions on the VM         *)
(*   SpecRT    the tree-walking Runtime, node by node                      *)
(*   SpecParse the parser of src/src/parser.rs, token by token             *)
(*   SpecLex   the lexer of src/src/lexer.rs, one call of next() a step    *)
(***************************************************************************)
EXTENDS Integers, Sequences, FiniteSets, TLC

(***************************************************************************)
(* Bounds of the model.                                                    *)
(***************************************************************************)
\* nesting depth of the generated input trees
MaxNest == 2
\* number of VM instructions after which a run is cut off
MaxSteps == 40

(***************************************************************************)
(* Trees (src/src/parser.rs, enum Node).  One record shape for every       *)
(* variant: k the variant, name the identifier/text/operator, v the        *)
(* literal value (for If: 1 when an else branch is present), vars the      *)
(* as..let variable list, b the body, e the else body.                     *)
(***************************************************************************)
Node(k, name, v, vars, b, e) ==
    [k |-> k, name |-> name, v |-> v, vars |-> vars, b |-> b, e |-> e]

IntLit(n) == Node("IntLit", "", n, <<>>, <<>>, <<>>)
\* the literals of the model are the floats n.0
FloatLit(n) == Node("FloatLit", "", n, <<>>, <<>>, <<>>)
StringLit(s) == Node("StringLit", s, 0, <<>>, <<>>, <<>>)
Proc(name, body) == Node("Proc", name, 0, <<>>, body, <<>>)
Def(name, body) == Node("Def", name, 0, <<>>, body, <<>>)
If(then_block) == Node("If", "", 0, <<>>, then_block, <<>>)
IfElse(then_block, else_block) == Node("If", "", 1, <<>>, then_block, else_block)
Loop(body) == Node("Loop", "", 0, <<>>, body, <<>>)
Array(body) == Node("Array", "", 0, <<>>, body, <<>>)
Let(name) == Node("Let", name, 0, <<>>, <<>>, <<>>)
AsLet(vars, body) == Node("AsLet", "", 0, vars, body, <<>>)
Import(path) == Node("Import", path, 0, <<>>, <<>>, <<>>)
For(var, body) == Node("For", var, 0, <<>>, body, <<>>)
Operation(opkind) == Node("Operation", opkind, 0, <<>>, <<>>, <<>>)
Symbol(name) == Node("Symbol", name, 0, <<>>, <<>>, <<>>)

(***************************************************************************)
(* Values of the VM: a tag and a payload (Bool as 0/1, Nil as 0).          *)
(***************************************************************************)
Value(t, v) == [t |-> t, v |-> v]
VNil == Value("Nil", 0)
VBool(b) == Value("Bool", IF b THEN 1 ELSE 0)
VInt(n) == Value("Int", n)
VArray(id) == Value("Array", id)
VString(id) == Value("String", id)

(***************************************************************************)
(* Instructions (src/src/compiler.rs, enum Instr): op the variant, a the   *)
(* address / span id / pushed payload, s the name / text / pushed tag.     *)
(***************************************************************************)
Instr(op, a, s) == [op |-> op, a |-> a, s |-> s]
Jump(a) == Instr("Jump", a, "")
JumpIfNot(a) == Instr("JumpIfNot", a, "")
Call(a) == Instr("Call", a, "")
Push(val) == Instr("Push", val.v, val.t)
SetSpan(id) == Instr("SetSpan", id, "")
Plain(op) == Instr(op, 0, "")
Named(op, s) == Instr(op, 0, s)

\* the builtin names the compiler resolves (Compiler::compile_block, Node::Symbol)
BuiltinNames ==
    {"print", "println", "eprint", "eprintln", "input", "inputln", "open",
     "write", "read", "exit", "chr", "ord", "len", "typeof", "toint",
     "tofloat", "tostring", "tobool"}

\* OpKinds that Op::from_opkind maps to an Op
OpKindsWithOp ==
    {"Add", "Sub", "Mul", "Div", "Mod", "Exp", "Gt", "Lt", "Eq", "Ge", "Le",
     "Ne", "Shl", "Shr", "Bor", "Band", "BNot", "IsNil", "SeqIndex",
     "SeqAssignAtIndex", "Trace"}

\* the files an Import can name, with the tree the parser returns for each
FileNames == {"ret.pile", "lib.pile"}

FileTree(name) ==
    IF name = "ret.pile" THEN <<Operation("Return")>>
    ELSE <<Proc("h", <<IntLit(1)>>)>>

(***************************************************************************)
(* The compiler (src/src/compiler.rs, struct Compiler).                    *)
(* Addresses are 0-based as in the source: address a is instructions[a+1]. *)
(* sym_sites, loop_sites and break_sites are history fields, not part of   *)
(* the Compiler struct: where each Symbol, Loop and break was emitted.     *)
(* proc_sites, if_sites, cont_sites and aslet_sites are history fields     *)
(* too: where each Proc, If, continue and as..let block was emitted.       *)
(***************************************************************************)
EmptyMap == [x \in {} |-> 0]

MapPut(m, key, val) ==
    [x \in (DOMAIN m) \cup {key} |-> IF x = key THEN val ELSE m[x]]

CompilerNew ==
    [filename |-> "", procs |-> EmptyMap, spans |-> <<>>,
     instructions |-> <<>>, loop_stack |-> <<>>, panicked |-> FALSE,
     sym_sites |-> <<>>, loop_sites |-> <<>>, break_sites |-> <<>>,
     proc_sites |-> <<>>, if_sites |-> <<>>, cont_sites |-> <<>>,
     aslet_sites |-> <<>>]

Emit(c, ins) == [c EXCEPT !.instructions = Append(@, ins)]

Patch(c, addr, ins) == [c EXCEPT !.instructions[addr + 1] = ins]

\* add_span followed by the push of SetSpan(span_id)
add_span(c) == [c EXCEPT !.spans = Append(@, c.filename)]

\* a compiler that records the span and emits no SetSpan for it
EmitSpan_NoSetSpan(c) == add_span(c)

EmitSpan(c) == Emit(add_span(c), SetSpan(Len(c.spans)))

RECURSIVE compile_block(_, _, _)
RECURSIVE compile_stmts(_, _, _)
RECURSIVE compile_stmt(_, _)

CompileImport(c, name) ==
    LET prev_filename == c.filename
        c1 == [c EXCEPT !.filename = name]
        c2 == compile_block(c1, FileTree(name), TRUE)
    IN  [c2 EXCEPT !.filename = prev_filename]

\* CompileProc with the forward jump patched as if targets were relative
CompileProc_RelativeJump(c, name, block) ==
    LET c1 == EmitSpan(c)
        backpatch == Len(c1.instructions)
        c2 == Emit(c1, Jump(0))
        proc_addr == Len(c2.instructions)
        c3 == [c2 EXCEPT !.procs = MapPut(@, name, proc_addr)]
        c4 == compile_block(c3, block, TRUE)
        c5 == Emit(c4, Plain("Return"))
    IN  Patch(c5, backpatch, Jump(backpatch + Len(c5.instructions)))

\* CompileProc entering the name in the table after the body is compiled
CompileProc_InsertAfterBody(c, name, block) ==
    LET c1 == EmitSpan(c)
        backpatch == Len(c1.instructions)
        c2 == Emit(c1, Jump(0))
        proc_addr == Len(c2.instructions)
        c4 == compile_block(c2, block, TRUE)
        c5 == Emit([c4 EXCEPT !.procs = MapPut(@, name, proc_addr)],
                   Plain("Return"))
        c6 == Patch(c5, backpatch, Jump(Len(c5.instructions)))
    IN  [c6 EXCEPT !.proc_sites =
            Append(@, [name |-> name, entry |-> proc_addr,
                       end |-> Len(c5.instructions)])]

CompileProc(c, name, block) ==
    LET c1 == EmitSpan(c)
        backpatch == Len(c1.instructions)
        c2 == Emit(c1, Jump(0))
        proc_addr == Len(c2.instructions)
        c3 == [c2 EXCEPT !.procs = MapPut(@, name, proc_addr)]
        c4 == compile_block(c3, block, TRUE)
        c5 == Emit(c4, Plain("Return"))
        c6 == Patch(c5, backpatch, Jump(Len(c5.instructions)))
    IN  [c6 EXCEPT !.proc_sites =
            Append(@, [name |-> name, entry |-> proc_addr,
                       end |-> Len(c5.instructions)])]

\* CompileIf with the conditional jump patched to the escape jump
CompileIf_CondToEscape(c, then_block, has_else, else_block) ==
    LET c1 == EmitSpan(c)
        cond_backpatch == Len(c1.instructions)
        c2 == Emit(c1, JumpIfNot(0))
        c3 == compile_block(c2, then_block, FALSE)
        escape_backpatch == Len(c3.instructions)
        c4 == Emit(c3, Jump(0))
        else_addr == Len(c4.instructions)
        c5 == IF has_else THEN compile_block(c4, else_block, FALSE) ELSE c4
        end == Len(c5.instructions)
        c6 == Patch(Patch(c5, escape_backpatch, Jump(end)),
                    cond_backpatch, JumpIfNot(escape_backpatch))
    IN  [c6 EXCEPT !.if_sites =
            Append(@, [cond |-> cond_backpatch, escape |-> escape_backpatch,
                       else_addr |-> else_addr, end |-> end,
                       has_else |-> has_else])]

CompileIf(c, then_block, has_else, else_block) ==
    LET c1 == EmitSpan(c)
        cond_backpatch == Len(c1.instructions)
        c2 == Emit(c1, JumpIfNot(0))
        c3 == compile_block(c2, then_block, FALSE)
        escape_backpatch == Len(c3.instructions)
        c4 == Emit(c3, Jump(0))
        else_addr == Len(c4.instructions)
        c5 == IF has_else THEN compile_block(c4, else_block, FALSE) ELSE c4
        end == Len(c5.instructions)
        c6 == Patch(Patch(c5, escape_backpatch, Jump(end)),
                    cond_backpatch, JumpIfNot(else_addr))
    IN  [c6 EXCEPT !.if_sites =
            Append(@, [cond |-> cond_backpatch, escape |-> escape_backpatch,
                       else_addr |-> else_addr, end |-> end,
                       has_else |-> has_else])]

RECURSIVE BackpatchBreaks(_, _, _)
BackpatchBreaks(c, breaks, loop_end) ==
    IF breaks = <<>> THEN c
    ELSE BackpatchBreaks(Patch(c, Head(breaks), Jump(loop_end)),
                         Tail(breaks), loop_end)

CompileLoop(c, block) ==
    LET c1 == EmitSpan(c)
        loop_start == Len(c1.instructions)
        c2 == [c1 EXCEPT !.loop_stack =
                  Append(@, [start |-> loop_start, breaks |-> <<>>])]
        c3 == compile_block(c2, block, FALSE)
        c4 == Emit(c3, Jump(loop_start))
        breaks == c4.loop_stack[Len(c4.loop_stack)].breaks
        c5 == [c4 EXCEPT !.loop_stack = SubSeq(@, 1, Len(@) - 1)]
        loop_end == Len(c5.instructions)
        c6 == BackpatchBreaks(c5, breaks, loop_end)
    IN  [c6 EXCEPT !.loop_sites =
            Append(@, [start |-> loop_start, end |-> loop_end])]

CompileDef(c, name, block) ==
    LET c1 == EmitSpan(c)
        c2 == compile_block(c1, block, FALSE)
    IN  Emit(c2, Named("SetDefinition", name))

CompileArray(c, block) ==
    LET c1 == Emit(EmitSpan(c), Plain("BeginArray"))
        c2 == compile_block(c1, block, FALSE)
    IN  Emit(c2, Plain("EndArray"))

\* CompileBreak registering the jump with the outermost open loop
CompileBreak_OuterLoop(c) ==
    LET c1 == add_span(c)
        top == Len(c1.loop_stack)
    IN  IF top > 0
        THEN LET c2 == Emit(c1, SetSpan(Len(c.spans)))
                 break_pos == Len(c2.instructions)
                 c3 == Emit(c2, Jump(0))
             IN  [c3 EXCEPT !.loop_stack[1].breaks = Append(@, break_pos),
                            !.break_sites = Append(@, break_pos)]
        ELSE c1

CompileBreak(c) ==
    LET c1 == add_span(c)
        top == Len(c1.loop_stack)
    IN  IF top > 0
        THEN LET c2 == Emit(c1, SetSpan(Len(c.spans)))
                 break_pos == Len(c2.instructions)
                 c3 == Emit(c2, Jump(0))
             IN  [c3 EXCEPT !.loop_stack[top].breaks = Append(@, break_pos),
                            !.break_sites = Append(@, break_pos)]
        ELSE c1

\* CompileContinue jumping to the start of the outermost open loop
CompileContinue_OuterLoop(c) ==
    LET c1 == add_span(c)
        top == Len(c1.loop_stack)
    IN  IF top > 0
        THEN LET c2 == Emit(c1, SetSpan(Len(c.spans)))
                 c3 == Emit(c2, Jump(c1.loop_stack[1].start))
             IN  [c3 EXCEPT !.cont_sites = Append(@, Len(c2.instructions))]
        ELSE c1

CompileContinue(c) ==
    LET c1 == add_span(c)
        top == Len(c1.loop_stack)
    IN  IF top > 0
        THEN LET c2 == Emit(c1, SetSpan(Len(c.spans)))
                 c3 == Emit(c2, Jump(c1.loop_stack[top].start))
             IN  [c3 EXCEPT !.cont_sites = Append(@, Len(c2.instructions))]
        ELSE c1

CompileReturn(c) ==
    Emit(Emit(EmitSpan(c), Plain("EndScope")), Plain("Return"))

\* the literal and stack-shuffling operators with an instruction of their own,
\* and every other OpKind through Op::from_opkind
CompileOperation(c, kind) ==
    CASE kind = "True" -> Emit(EmitSpan(c), Push(VBool(TRUE)))
      [] kind = "False" -> Emit(EmitSpan(c), Push(VBool(FALSE)))
      [] kind = "Nil" -> Emit(EmitSpan(c), Push(VNil))
      [] kind = "Swap" -> Emit(EmitSpan(c), Plain("Swap"))
      [] kind = "Over" -> Emit(EmitSpan(c), Plain("Over"))
      [] kind = "Dup" -> Emit(EmitSpan(c), Plain("Duplicate"))
      [] kind = "Drop" -> Emit(EmitSpan(c), Plain("Drop"))
      [] kind = "Rot" -> Emit(EmitSpan(c), Plain("Rotate"))
      [] kind \in OpKindsWithOp -> Emit(EmitSpan(c), Named("ExecOp", kind))
      [] OTHER -> [c EXCEPT !.panicked = TRUE]

\* CompileSymbol looking the name up among the builtins first
CompileSymbol_BuiltinFirst(c, name) ==
    LET c1 == EmitSpan(c)
        site == [name |-> name, addr |-> Len(c1.instructions)]
        c2 == IF name \in BuiltinNames
              THEN Emit(c1, Named("ExecBuiltin", name))
              ELSE IF name \in DOMAIN c1.procs
                   THEN Emit(c1, Call(c1.procs[name]))
                   ELSE Emit(c1, Named("PushBinding", name))
    IN  [c2 EXCEPT !.sym_sites = Append(@, site)]

CompileSymbol(c, name) ==
    LET c1 == EmitSpan(c)
        site == [name |-> name, addr |-> Len(c1.instructions)]
        c2 == IF name \in DOMAIN c1.procs
              THEN Emit(c1, Call(c1.procs[name]))
              ELSE IF name \in BuiltinNames
                   THEN Emit(c1, Named("ExecBuiltin", name))
                   ELSE Emit(c1, Named("PushBinding", name))
    IN  [c2 EXCEPT !.sym_sites = Append(@, site)]

\* the variables in reverse order; the body of the block is not visited
RECURSIVE CompileAsLet(_, _)
CompileAsLet(c, variables) ==
    IF variables = <<>> THEN c
    ELSE LET x == variables[Len(variables)]
         IN  CompileAsLet(Emit(EmitSpan(c), Named("SetVariable", x)),
                          SubSeq(variables, 1, Len(variables) - 1))

\* the AsLet arm on a node: its variables, its body and where it was emitted
CompileAsLetNode(c, variables, block) ==
    LET c1 == CompileAsLet(c, variables)
    IN  [c1 EXCEPT !.aslet_sites =
            Append(@, [start |-> Len(c.instructions),
                       end |-> Len(c1.instructions),
                       vars |-> variables, body |-> Len(block)])]

compile_stmt(c, stmt) ==
    CASE stmt.k = "Import" -> CompileImport(c, stmt.name)
      [] stmt.k = "Proc" -> CompileProc(c, stmt.name, stmt.b)
      [] stmt.k = "If" -> CompileIf(c, stmt.b, stmt.v = 1, stmt.e)
      [] stmt.k = "Loop" -> CompileLoop(c, stmt.b)
      [] stmt.k = "Def" -> CompileDef(c, stmt.name, stmt.b)
      [] stmt.k = "Array" -> CompileArray(c, stmt.b)
      [] stmt.k = "Operation" /\ stmt.name = "Break" -> CompileBreak(c)
      [] stmt.k = "Operation" /\ stmt.name = "Continue" -> CompileContinue(c)
      [] stmt.k = "Operation" /\ stmt.name = "Return" -> CompileReturn(c)
      [] stmt.k = "Operation" -> CompileOperation(c, stmt.name)
      [] stmt.k = "IntLit" -> Emit(EmitSpan(c), Push(VInt(stmt.v)))
      [] stmt.k = "FloatLit" -> Emit(EmitSpan(c), Push(Value("Float", stmt.v)))
      [] stmt.k = "StringLit" -> Emit(EmitSpan(c), Named("PushString", stmt.name))
      [] stmt.k = "Let" -> Emit(EmitSpan(c), Named("SetVariable", stmt.name))
      [] stmt.k = "Symbol" -> CompileSymbol(c, stmt.name)
      [] stmt.k = "AsLet" -> CompileAsLetNode(c, stmt.vars, stmt.b)
      [] OTHER -> [c EXCEPT !.panicked = TRUE]

compile_stmts(c, block, i) ==
    IF i > Len(block) \/ c.panicked THEN c
    ELSE compile_stmts(compile_stmt(c, block[i]), block, i + 1)

compile_block(c, block, scoped) ==
    LET c1 == IF scoped THEN Emit(c, Plain("BeginScope")) ELSE c
        c2 == compile_stmts(c1, block, 1)
    IN  IF scoped /\ ~c2.panicked THEN Emit(c2, Plain("EndScope")) ELSE c2

compile(input, filename) ==
    compile_block([CompilerNew EXCEPT !.filename = filename], input, TRUE)

(***************************************************************************)
(* Input trees of Spec.  Chains of nested blocks around one leaf, inside a *)
(* procedure that is then called and at top level, plus the programs of    *)
(* the design's scenarios and a few shapes the chains do not produce.      *)
(***************************************************************************)
T == Operation("True")
F == Operation("False")
Brk == Operation("Break")
Cont == Operation("Continue")
Ret == Operation("Return")

ChainLeaves ==
    {<<Brk>>, <<Cont>>, <<Ret>>, <<Symbol("f")>>, <<IntLit(1)>>,
     <<Import("ret.pile")>>}

Wrap(b) ==
    {<<T, If(b)>>, <<F, If(b)>>, <<T, IfElse(b, <<IntLit(1)>>)>>,
     <<F, IfElse(<<IntLit(1)>>, b)>>, <<Loop(b)>>, <<Loop(b \o <<Brk>>)>>,
     <<Array(b)>>, <<Def("d", b)>>, <<Proc("g", b)>>}

RECURSIVE Chains(_)
Chains(d) ==
    IF d = 0 THEN ChainLeaves
    ELSE LET inner == Chains(d - 1)
         IN  inner \cup UNION {Wrap(b) : b \in inner}

Scenarios ==
    {<<IntLit(1), IntLit(2), Operation("Add"), Symbol("println")>>,
     <<Proc("sq", <<Operation("Dup"), Operation("Mul")>>), IntLit(5),
       Symbol("sq"), Symbol("println")>>,
     <<Loop(<<IntLit(1), Brk>>), IntLit(42), Symbol("println")>>,
     <<Symbol("f"), Proc("f", <<IntLit(1)>>), Symbol("f")>>,
     <<Loop(<<Loop(<<Brk, Brk>>), T, If(<<Brk>>), Cont>>), IntLit(7)>>,
     <<IntLit(1), IntLit(2), AsLet(<<"a", "b">>, <<Symbol("a")>>),
       Symbol("b"), Symbol("a"), Symbol("nope")>>,
     <<StringLit("x"), Let("s"), Symbol("s"), StringLit("x"),
       Operation("Swap"), Operation("Over"), Operation("Rot"),
       Operation("Drop"), Operation("Eq")>>,
     <<Array(<<IntLit(1), IntLit(2)>>), Def("d", <<IntLit(3)>>),
       Symbol("d"), Symbol("STDOUT"), Def("e", <<>>)>>,
     <<Import("lib.pile"), Symbol("h"), For("i", <<>>)>>,
     <<Proc("f", <<Symbol("f")>>), Symbol("f")>>,
     <<IntLit(1), Symbol("println"), Proc("println", <<Operation("Drop")>>),
       IntLit(2), Symbol("println")>>,
     <<Proc("f", <<Proc("f", <<IntLit(1)>>), Symbol("f")>>), Symbol("f")>>,
     <<Proc("f", <<Loop(<<T, If(<<Symbol("f"), Brk>>)>>)>>), Symbol("f")>>,
     <<Loop(<<Loop(<<F, IfElse(<<Brk>>, <<Cont>>)>>), Brk>>)>>,
     <<AsLet(<<>>, <<IntLit(1)>>), IntLit(1), AsLet(<<"a">>, <<>>)>>,
     <<T, IfElse(<<F, IfElse(<<IntLit(1)>>, <<IntLit(2)>>)>>, <<IntLit(3)>>),
       Symbol("println")>>,
     <<F, IfElse(<<IntLit(1)>>, <<T, If(<<IntLit(2)>>), IntLit(3)>>),
       Symbol("println")>>}
    \cup {<<IntLit(1), Symbol(b)>> : b \in BuiltinNames \cup {"readline"}}
    \cup {<<Loop(<<Proc("g", <<Brk>>), Symbol("g")>>), IntLit(1)>>,
          <<Proc("g", <<Loop(<<T, If(<<Brk>>), Cont>>)>>), Symbol("g")>>}

Programs ==
    {<<Proc("f", b)>> \o <<Symbol("f"), IntLit(2)>> : b \in Chains(MaxNest)}
    \cup Chains(MaxNest) \cup Scenarios

(***************************************************************************)
(* The stack VM (design, section 4.4).  vm is the executor's state; the    *)
(* operand stack, the call stack and the scope stack grow at the end.      *)
(* obs is a history variable: the scope depth at each pending Call, the   *)
(* depths seen by the last Return (at_call, after; returns counts to 1)    *)
(* and the address of the instruction executed last.  rt and hist belong   *)
(* to the tree-walking Runtime further down and stay empty under Spec.     *)
(***************************************************************************)
VARIABLES program, compiler, vm, obs, rt, hist, parser, lexer

Instructions == compiler.instructions

Top(s) == s[Len(s)]
Pop(s) == SubSeq(s, 1, Len(s) - 1)
PopN(s, n) == SubSeq(s, 1, Len(s) - n)

Falsy(val) == val = VNil \/ val = VBool(FALSE)

\* section 4.4, startup: the three standard streams bound in definitions
VMNew ==
    [pc |-> 0, stack |-> <<>>, call_stack |-> <<>>, scopes |-> <<>>,
     definitions |-> [n \in {"STDIN", "STDOUT", "STDERR"} |->
                         Value("Data", IF n = "STDIN" THEN 0
                                       ELSE IF n = "STDOUT" THEN 1 ELSE 2)],
     strings |-> <<>>, arrays |-> <<>>, array_start_stack |-> <<>>,
     current_span_id |-> -1, output |-> <<>>, status |-> "running",
     steps |-> 0]

Fail(m, what) == [m EXCEPT !.status = what]
Next1(m) == [m EXCEPT !.pc = @ + 1, !.steps = @ + 1]
PushV(m, val) == Next1([m EXCEPT !.stack = Append(@, val)])

\* the id of text s in the intern table after interning it
InternId(strings, s) ==
    IF \E i \in 1..Len(strings) : strings[i] = s
    THEN (CHOOSE i \in 1..Len(strings) : strings[i] = s) - 1
    ELSE Len(strings)

Intern(strings, s) ==
    IF \E i \in 1..Len(strings) : strings[i] = s THEN strings
    ELSE Append(strings, s)

\* innermost-first over the scope stack, then definitions
RECURSIVE LookupScopes(_, _, _)
LookupScopes(scopes, i, n) ==
    IF i = 0 THEN <<>>
    ELSE IF n \in DOMAIN scopes[i] THEN <<scopes[i][n]>>
         ELSE LookupScopes(scopes, i - 1, n)

LookupBinding(m, n) ==
    LET hit == LookupScopes(m.scopes, Len(m.scopes), n)
    IN  IF hit # <<>> THEN hit
        ELSE IF n \in DOMAIN m.definitions THEN <<m.definitions[n]>>
             ELSE <<>>

ExecPushBinding(m, n) ==
    LET hit == LookupBinding(m, n)
    IN  IF hit = <<>> THEN Fail(m, "InvalidSymbol") ELSE PushV(m, hit[1])

ExecSetVariable(m, n) ==
    IF m.stack = <<>> THEN Fail(m, "StackUnderflow")
    ELSE IF m.scopes = <<>> THEN Fail(m, "NoScope")
    ELSE Next1([m EXCEPT !.stack = Pop(@),
                         !.scopes[Len(m.scopes)] = MapPut(@, n, Top(m.stack))])

ExecSetDefinition(m, n) ==
    IF m.stack = <<>> THEN Fail(m, "EmptyDefinition")
    ELSE Next1([m EXCEPT !.stack = Pop(@),
                         !.definitions = MapPut(@, n, Top(m.stack))])

ExecBeginScope(m) == Next1([m EXCEPT !.scopes = Append(@, EmptyMap)])

ExecEndScope(m) ==
    IF m.scopes = <<>> THEN Fail(m, "NoScope")
    ELSE Next1([m EXCEPT !.scopes = Pop(@)])

\* dup (a -- a a), drop (a -- ), swap (a b -- b a), over (a b -- a b a),
\* rot (a b c -- b c a)
ExecStackOp(m, op) ==
    LET s == m.stack
        n == Len(s)
        need == CASE op \in {"Duplicate", "Drop"} -> 1
                  [] op \in {"Swap", "Over"} -> 2
                  [] OTHER -> 3
    IN  IF n < need THEN Fail(m, "StackUnderflow")
        ELSE Next1([m EXCEPT !.stack =
               CASE op = "Duplicate" -> Append(s, s[n])
                 [] op = "Drop" -> Pop(s)
                 [] op = "Swap" -> PopN(s, 2) \o <<s[n], s[n - 1]>>
                 [] op = "Over" -> Append(s, s[n - 1])
                 [] OTHER -> PopN(s, 3) \o <<s[n - 1], s[n], s[n - 2]>>])

\* the operators the input trees of Spec use; (Int,Int) only
VMOps == {"Add", "Mul", "Eq"}

ExecOp(m, op) ==
    LET s == m.stack
        n == Len(s)
    IN  IF n < 2 THEN Fail(m, "StackUnderflow")
        ELSE IF s[n].t # "Int" \/ s[n - 1].t # "Int"
             THEN IF op = "Eq" /\ s[n].t = "String" /\ s[n - 1].t = "String"
                  THEN PushV([m EXCEPT !.stack = PopN(s, 2)],
                             VBool(s[n - 1].v = s[n].v))
                  ELSE Fail(m, "UnexpectedType")
             ELSE PushV([m EXCEPT !.stack = PopN(s, 2)],
                        CASE op = "Add" -> VInt(s[n - 1].v + s[n].v)
                          [] op = "Mul" -> VInt(s[n - 1].v * s[n].v)
                          [] OTHER -> VBool(s[n - 1].v = s[n].v))

\* print/println: pop one value and render it
VMBuiltins == {"print", "println"}

ExecBuiltin(m, b) ==
    IF m.stack = <<>> THEN Fail(m, "StackUnderflow")
    ELSE Next1([m EXCEPT !.stack = Pop(@),
                         !.output = Append(@, Top(m.stack))])

ExecJump(m, a) == [m EXCEPT !.pc = a, !.steps = @ + 1]

ExecJumpIfNot(m, a) ==
    IF m.stack = <<>> THEN Fail(m, "StackUnderflow")
    ELSE IF Falsy(Top(m.stack))
         THEN [m EXCEPT !.stack = Pop(@), !.pc = a, !.steps = @ + 1]
         ELSE Next1([m EXCEPT !.stack = Pop(@)])

ExecCall(m, a) ==
    [m EXCEPT !.call_stack = Append(@, m.pc + 1), !.pc = a, !.steps = @ + 1]

ExecReturn(m) ==
    IF m.call_stack = <<>> THEN Fail(m, "NoCaller")
    ELSE [m EXCEPT !.pc = Top(m.call_stack), !.call_stack = Pop(@),
                   !.steps = @ + 1]

ExecBeginArray(m) ==
    Next1([m EXCEPT !.array_start_stack = Append(@, Len(m.stack))])

ExecEndArray(m) ==
    IF m.array_start_stack = <<>> THEN Fail(m, "NoArray")
    ELSE LET start == Top(m.array_start_stack)
             from == IF start > Len(m.stack) THEN Len(m.stack) ELSE start
             elems == SubSeq(m.stack, from + 1, Len(m.stack))
             id == Len(m.arrays)
         IN  Next1([m EXCEPT !.array_start_stack = Pop(@),
                             !.arrays = Append(@, elems),
                             !.stack = Append(SubSeq(m.stack, 1, from),
                                              VArray(id))])

ExecSetSpan(m, id) == Next1([m EXCEPT !.current_span_id = id])

Running == vm.status = "running" /\ vm.steps < MaxSteps
Fetching == Running /\ vm.pc < Len(Instructions)
Cur == Instructions[vm.pc + 1]

Init ==
    /\ program \in Programs
    /\ compiler = compile(program, "main.pile")
    /\ vm = IF compiler.panicked THEN Fail(VMNew, "CompilerPanic") ELSE VMNew
    /\ obs = [call_depths |-> <<>>, returns |-> 0, at_call |-> 0, after |-> 0,
              prev_pc |-> -1]
    /\ rt = <<>> /\ hist = <<>> /\ parser = <<>> /\ lexer = <<>>

Keep == UNCHANGED <<program, compiler, rt, hist, parser, lexer>>

Seen == obs' = [obs EXCEPT !.prev_pc = vm.pc]

VMPush ==
    /\ Fetching /\ Cur.op = "Push"
    /\ vm' = PushV(vm, Value(Cur.s, Cur.a))
    /\ Seen /\ Keep

VMPushString ==
    /\ Fetching /\ Cur.op = "PushString"
    /\ vm' = PushV([vm EXCEPT !.strings = Intern(@, Cur.s)],
                   VString(InternId(vm.strings, Cur.s)))
    /\ Seen /\ Keep

VMPushBinding ==
    /\ Fetching /\ Cur.op = "PushBinding"
    /\ vm' = ExecPushBinding(vm, Cur.s)
    /\ Seen /\ Keep

VMSetVariable ==
    /\ Fetching /\ Cur.op = "SetVariable"
    /\ vm' = ExecSetVariable(vm, Cur.s)
    /\ Seen /\ Keep

VMSetDefinition ==
    /\ Fetching /\ Cur.op = "SetDefinition"
    /\ vm' = ExecSetDefinition(vm, Cur.s)
    /\ Seen /\ Keep

VMBeginScope ==
    /\ Fetching /\ Cur.op = "BeginScope"
    /\ vm' = ExecBeginScope(vm)
    /\ Seen /\ Keep

VMEndScope ==
    /\ Fetching /\ Cur.op = "EndScope"
    /\ vm' = ExecEndScope(vm)
    /\ Seen /\ Keep

VMStackOp ==
    /\ Fetching
    /\ Cur.op \in {"Duplicate", "Drop", "Swap", "Over", "Rotate"}
    /\ vm' = ExecStackOp(vm, Cur.op)
    /\ Seen /\ Keep

VMExecOp ==
    /\ Fetching /\ Cur.op = "ExecOp" /\ Cur.s \in VMOps
    /\ vm' = ExecOp(vm, Cur.s)
    /\ Seen /\ Keep

VMExecBuiltin ==
    /\ Fetching /\ Cur.op = "ExecBuiltin" /\ Cur.s \in VMBuiltins
    /\ vm' = ExecBuiltin(vm, Cur.s)
    /\ Seen /\ Keep

VMJump ==
    /\ Fetching /\ Cur.op = "Jump"
    /\ vm' = ExecJump(vm, Cur.a)
    /\ Seen /\ Keep

VMJumpIfNot ==
    /\ Fetching /\ Cur.op = "JumpIfNot"
    /\ vm' = ExecJumpIfNot(vm, Cur.a)
    /\ Seen /\ Keep

VMCall ==
    /\ Fetching /\ Cur.op = "Call"
    /\ vm' = ExecCall(vm, Cur.a)
    /\ obs' = [obs EXCEPT !.call_depths = Append(@, Len(vm.scopes)),
                          !.prev_pc = vm.pc]
    /\ Keep

VMReturn ==
    /\ Fetching /\ Cur.op = "Return"
    /\ vm' = ExecReturn(vm)
    /\ obs' = IF obs.call_depths = <<>> THEN [obs EXCEPT !.prev_pc = vm.pc]
              ELSE [obs EXCEPT !.call_depths = Pop(@),
                               !.prev_pc = vm.pc,
                               !.returns = 1,
                               !.at_call = Top(obs.call_depths),
                               !.after = Len(vm'.scopes)]
    /\ Keep

VMBeginArray ==
    /\ Fetching /\ Cur.op = "BeginArray"
    /\ vm' = ExecBeginArray(vm)
    /\ Seen /\ Keep

VMEndArray ==
    /\ Fetching /\ Cur.op = "EndArray"
    /\ vm' = ExecEndArray(vm)
    /\ Seen /\ Keep

VMSetSpan ==
    /\ Fetching /\ Cur.op = "SetSpan"
    /\ vm' = ExecSetSpan(vm, Cur.a)
    /\ Seen /\ Keep

\* the main loop ends when pc reaches the end of the instructions
VMDone ==
    /\ Running /\ vm.pc >= Len(Instructions)
    /\ vm' = Fail(vm, "done")
    /\ UNCHANGED obs /\ Keep

\* the run is cut off after MaxSteps instructions
VMCutoff ==
    /\ vm.status = "running" /\ vm.steps >= MaxSteps
    /\ vm' = Fail(vm, "cutoff")
    /\ UNCHANGED obs /\ Keep

Next ==
    \/ VMPush \/ VMPushString \/ VMPushBinding \/ VMSetVariable
    \/ VMSetDefinition \/ VMBeginScope \/ VMEndScope \/ VMStackOp
    \/ VMExecOp \/ VMExecBuiltin \/ VMJump \/ VMJumpIfNot \/ VMCall
    \/ VMReturn \/ VMBeginArray \/ VMEndArray \/ VMSetSpan \/ VMDone
    \/ VMCutoff

vars == <<program, compiler, vm, obs, rt, hist, parser, lexer>>

Spec == Init /\ [][Next]_vars

(***************************************************************************)
(* Claims about the compiler and the VM (checked under Spec).              *)
(***************************************************************************)
JumpOps == {"Jump", "JumpIfNot", "Call"}

HasOp(op) == \E i \in 1..Len(Instructions) : Instructions[i].op = op

\* the loops whose instructions include address a
LoopsAround(a) ==
    {i \in 1..Len(compiler.loop_sites) :
        compiler.loop_sites[i].start <= a /\ a < compiler.loop_sites[i].end}

\* the innermost of them: the one that starts last
InnermostLoop(a) ==
    compiler.loop_sites[
        CHOOSE i \in LoopsAround(a) :
            \A j \in LoopsAround(a) :
                compiler.loop_sites[j].start <= compiler.loop_sites[i].start]

BreakSites == {compiler.break_sites[i] : i \in 1..Len(compiler.break_sites)}

\* C1: each time a Return executes, the scope-stack depth right after it
\* equals the depth at the Call that entered the procedure.
C1_ReturnRestoresScopeDepth ==
    obs.returns = 1 => obs.after = obs.at_call

\* C2: every Jump, JumpIfNot and Call operand of the compiled instruction
\* vector lies in 0..len(instructions).
C2_JumpTargetsInRange ==
    \A i \in 1..Len(Instructions) :
        Instructions[i].op \in JumpOps
            => 0 <= Instructions[i].a /\ Instructions[i].a <= Len(Instructions)

\* a tree with a procedure call, an if and a loop with several breaks
C2_Witness ==
    /\ HasOp("Call") /\ HasOp("JumpIfNot")
    /\ Len(compiler.break_sites) >= 2
    /\ \E i \in 1..Len(Instructions) :
           Instructions[i].op = "Jump" /\ Instructions[i].a > i

\* C3: a Symbol that names a procedure of the program compiles to a Call of
\* that procedure's entry address, wherever the proc block stands.
C3_SymbolOfProcIsCall ==
    ~compiler.panicked =>
        \A i \in 1..Len(compiler.sym_sites) :
            LET site == compiler.sym_sites[i]
            IN  site.name \in DOMAIN compiler.procs
                    => Instructions[site.addr + 1]
                           = Call(compiler.procs[site.name])

LoopBreakProgram == <<Loop(<<IntLit(1), Brk>>), IntLit(42), Symbol("println")>>

\* C5: the Jump emitted for a break inside loops targets the instruction
\* right after the back-jump of the innermost enclosing loop; executing it
\* moves the VM there; `loop 1 break end 42 println` prints 42.
C5_BreakExitsInnermostLoop ==
    /\ \A b \in BreakSites :
           /\ LoopsAround(b) # {}
           /\ Instructions[b + 1] = Jump(InnermostLoop(b).end)
           /\ Instructions[InnermostLoop(b).end]
                  = Jump(InnermostLoop(b).start)
    /\ (obs.prev_pc \in BreakSites /\ vm.steps > 0)
           => vm.pc = InnermostLoop(obs.prev_pc).end
    /\ (program = LoopBreakProgram /\ vm.status = "done")
           => vm.output = <<VInt(42)>>

\* a break of an inner loop has run and control is inside the outer loop
C5_Witness ==
    /\ obs.prev_pc \in BreakSites
    /\ Cardinality(LoopsAround(obs.prev_pc)) >= 2
    /\ vm.pc = InnermostLoop(obs.prev_pc).end
    /\ Cardinality(LoopsAround(vm.pc)) >= 1

(***************************************************************************)
(* The tree-walking Runtime (src/src/runtime.rs, struct Runtime).          *)
(*                                                                         *)
(* i64 and usize are modelled at IntWidth bits.  f64 is modelled by the    *)
(* extended rationals n/d in lowest terms with d >= 0: 1/0 is +inf, -1/0   *)
(* is -inf and 0/0 is NaN (rounding and the sign of zero are left out).    *)
(* The operand stack is a VecDeque used at its front: stack[1] is the top. *)
(***************************************************************************)
\* width of the modelled i64 / usize
IntWidth == 8
\* MAX_RECURSION_DEPTH, scaled down from 256
MaxRecursionDepth == 4
\* STR_CAPACITY, scaled down from 100*1024
StrCapacity == 12

MinInt == -(2 ^ (IntWidth - 1))
MaxInt == 2 ^ (IntWidth - 1) - 1
InRange(n) == MinInt <= n /\ n <= MaxInt
\* two's complement wrap of n to the width of i64
WrapInt(n) == ((n - MinInt) % (2 ^ IntWidth)) + MinInt
\* wrap of n to the width of usize
WrapUsize(n) == n % (2 ^ IntWidth)

Abs(n) == IF n < 0 THEN -n ELSE n
Sign(n) == IF n < 0 THEN -1 ELSE IF n > 0 THEN 1 ELSE 0
\* Rust's / and % on integers truncate toward zero
TruncDiv(a, b) == Sign(a) * Sign(b) * (Abs(a) \div Abs(b))
TruncRem(a, b) == a - b * TruncDiv(a, b)

RECURSIVE Gcd(_, _)
Gcd(a, b) == IF b = 0 THEN a ELSE Gcd(b, a % b)

Data(t, v, w) == [t |-> t, v |-> v, w |-> w]
DInt(n) == Data("int", n, 0)
DBool(b) == Data("bool", IF b THEN 1 ELSE 0, 0)
DNil == Data("nil", 0, 0)
DString(ptr, size) == Data("string", ptr, size)
DArray(id) == Data("array", id, 0)
\* the float n/d, normalised
DFloat(n, d) ==
    IF d = 0 THEN Data("float", Sign(n), 0)
    ELSE LET g == Gcd(Abs(n), Abs(d))
         IN  Data("float", Sign(d) * (n \div g), Abs(d) \div g)

NaN == DFloat(0, 0)
IsNaN(x) == x.v = 0 /\ x.w = 0
IsInf(x) == x.v # 0 /\ x.w = 0

FloatAdd(x, y) ==
    IF IsNaN(x) \/ IsNaN(y) THEN NaN
    ELSE IF IsInf(x) /\ IsInf(y) THEN (IF x.v = y.v THEN x ELSE NaN)
    ELSE IF IsInf(x) THEN x
    ELSE IF IsInf(y) THEN y
    ELSE DFloat(x.v * y.w + y.v * x.w, x.w * y.w)
FloatNeg(x) == Data("float", -x.v, x.w)
FloatSub(x, y) == FloatAdd(x, FloatNeg(y))
FloatMul(x, y) == DFloat(x.v * y.v, x.w * y.w)
FloatDiv(x, y) ==
    IF IsNaN(x) \/ IsNaN(y) THEN NaN
    ELSE IF y.v = 0 /\ y.w # 0 THEN DFloat(x.v, 0)
    ELSE DFloat(x.v * y.w * Sign(y.v), x.w * Abs(y.v))
\* fmod
FloatRem(x, y) ==
    IF IsNaN(x) \/ IsNaN(y) \/ IsInf(x) \/ y.v = 0 THEN NaN
    ELSE IF IsInf(y) THEN x
    ELSE LET q == TruncDiv(x.v * y.w, x.w * y.v)
         IN  FloatSub(x, FloatMul(DFloat(q, 1), y))
FloatEq(x, y) == ~IsNaN(x) /\ ~IsNaN(y) /\ x = y
FloatLt(x, y) ==
    /\ ~IsNaN(x) /\ ~IsNaN(y) /\ x # y
    /\ IF IsInf(x) THEN x.v < 0
       ELSE IF IsInf(y) THEN y.v > 0
       ELSE x.v * y.w < y.v * x.w

\* v.as_bytes() for the string literals of the input trees
as_bytes(s) ==
    CASE s = "x" -> <<120>>
      [] s = "hi" -> <<104, 105>>
      [] s = "abc" -> <<97, 98, 99>>
      [] s = "12" -> <<49, 50>>
      [] s = "-3" -> <<45, 51>>
      [] s = "+5" -> <<43, 53>>
      [] s = "1x" -> <<49, 120>>
      [] s = "-" -> <<45>>
      [] OTHER -> <<>>

\* the files std::fs::File::open finds, with the tree parse_file returns
RTFileNames ==
    {"lib.pile", "self.pile", "bad.pile", "arr.pile", "calls.pile", "str.pile",
     "a.pile", "b.pile"}

RTFileTree(path) ==
    CASE path = "lib.pile" ->
            <<Proc("h", <<IntLit(7)>>), Def("K", <<IntLit(5)>>), IntLit(9),
              Let("g")>>
      [] path = "self.pile" -> <<Import("self.pile")>>
      [] path = "arr.pile" ->
            <<Def("A", <<Array(<<IntLit(1), IntLit(2)>>)>>)>>
      [] path = "calls.pile" ->
            <<Proc("inner", <<IntLit(1)>>),
              Proc("outer", <<Symbol("inner"), Operation("Drop")>>)>>
      [] path = "str.pile" -> <<Def("S", <<StringLit("abc")>>)>>
      [] path = "a.pile" -> <<Import("b.pile")>>
      [] path = "b.pile" -> <<Import("a.pile")>>
      [] OTHER -> <<Operation("Drop")>>

\* a position in the walk: the block being run and the next node of it.
\* kind is the Rust loop or call the frame stands for: "run" (Runtime::run),
\* "prepopulate", "block" (run_block), "loop", "proc", and the code that
\* follows a run_block call: "def_end", "array_end", "aslet_end".
Frame(kind, nodes, name, n) ==
    [kind |-> kind, nodes |-> nodes, i |-> 1, name |-> name, n |-> n]

Err(kind, name, a, b) == [kind |-> kind, name |-> name, a |-> a, b |-> b]
NoError == Err("", "", 0, 0)

\* overflow_checks is the build profile: TRUE for a debug build
RuntimeNew(input, filename, overflow_checks) ==
    [input |-> input, root_filename |-> filename, filename |-> filename,
     string_buffer |-> <<>>, string_ptr |-> 0,
     arrays |-> <<>>, current_array |-> 0,
     stack |-> <<>>,
     procs |-> EmptyMap, defs |-> EmptyMap, globals |-> EmptyMap,
     locals |-> <<>>,
     loop_break |-> FALSE, loop_continue |-> FALSE, proc_return |-> FALSE,
     recursion_depth |-> 0,
     ctrl |-> <<Frame("run", input, "", 0),
                Frame("prepopulate", input, "", 0)>>,
     outer |-> <<>>,
     overflow_checks |-> overflow_checks,
     status |-> "running", error |-> NoError, error_calls |-> 0,
     exit_code |-> 0, output |-> <<>>, steps |-> 0]

TopFrame(r) == r.ctrl[Len(r.ctrl)]
PushFrame(r, f) == [r EXCEPT !.ctrl = Append(@, f)]
PopFrame(r) == [r EXCEPT !.ctrl = SubSeq(@, 1, Len(@) - 1)]
\* the for loop of the frame moves to its next node
Advance(r) == [r EXCEPT !.ctrl[Len(r.ctrl)].i = @ + 1, !.steps = @ + 1]

ProcFrames(r) == Cardinality({i \in 1..Len(r.ctrl) : r.ctrl[i].kind = "proc"})

\* return Err(e); every procedure call on the way out wraps it in a
\* ProcedureError (error_calls counts the wrappers)
Raise(r, e) ==
    [r EXCEPT !.status = "error", !.error = e, !.error_calls = ProcFrames(r)]
\* a Rust panic: the process aborts
Panic(r, what) ==
    [r EXCEPT !.status = "panic", !.error = Err("panic", what, 0, 0)]
\* error::fatal
Fatal(r, what) ==
    [r EXCEPT !.status = "fatal", !.error = Err("fatal", what, 0, 0)]

push_front(r, d) == [r EXCEPT !.stack = <<d>> \o @]
\* the stack after k calls of pop(), each of which may find it empty
PopK(stack, k) ==
    SubSeq(stack, (IF k < Len(stack) THEN k ELSE Len(stack)) + 1, Len(stack))
Popped(r, k) == [r EXCEPT !.stack = PopK(@, k)]

\* the buffer is an array of STR_CAPACITY bytes, zero where nothing has been
\* stored (string_buffer holds the bytes stored so far)
read_string(r, ptr, size) ==
    [i \in 1..size |-> IF ptr + i <= Len(r.string_buffer)
                       THEN r.string_buffer[ptr + i] ELSE 0]

store_string(r, bytes) ==
    IF r.string_ptr + Len(bytes) > StrCapacity
    THEN Fatal(r, "string buffer overflow")
    ELSE [r EXCEPT !.string_buffer = @ \o bytes,
                   !.string_ptr = @ + Len(bytes)]

push_string(r, bytes) ==
    LET r1 == store_string(r, bytes)
    IN  IF r1.status # "running" THEN r1
        ELSE push_front(r1, DString(r.string_ptr, Len(bytes)))

alloc_array(r, arr) ==
    [r EXCEPT !.arrays = Append(@, arr), !.current_array = @ + 1]
push_array(r, arr) == push_front(alloc_array(r, arr), DArray(r.current_array))
load_array(r, id) == r.arrays[id + 1]

\* Display of BinaryOp
OpText(x) ==
    CASE x = "Add" -> "+" [] x = "Sub" -> "-" [] x = "Mul" -> "*"
      [] x = "Div" -> "/" [] x = "Mod" -> "%" [] x = "Eq" -> "="
      [] x = "Lt" -> "<" [] OTHER -> x

BinaryOps == {"Add", "Sub", "Mul", "Div", "Mod", "Eq", "Lt"}

\* an i64 result t of + - *: a debug build panics on overflow, a release
\* build wraps
Arith(r, t) ==
    IF InRange(t) THEN push_front(r, DInt(t))
    ELSE IF r.overflow_checks THEN Panic(r, "arithmetic overflow")
    ELSE push_front(r, DInt(WrapInt(t)))

\* the (Int, Int) arm of binop
IntBinop(r, x, n1, n2) ==
    CASE x = "Add" -> Arith(r, n1 + n2)
      [] x = "Sub" -> Arith(r, n1 - n2)
      [] x = "Mul" -> Arith(r, n1 * n2)
      [] x = "Div" ->
            IF n2 = 0 THEN Panic(r, "attempt to divide by zero")
            ELSE IF n1 = MinInt /\ n2 = -1
            THEN Panic(r, "attempt to divide with overflow")
            ELSE push_front(r, DInt(TruncDiv(n1, n2)))
      [] x = "Mod" ->
            IF n2 = 0
            THEN Panic(r, "attempt to calculate the remainder with a divisor of zero")
            ELSE IF n1 = MinInt /\ n2 = -1
            THEN Panic(r, "attempt to calculate the remainder with overflow")
            ELSE push_front(r, DInt(TruncRem(n1, n2)))
      [] x = "Eq" -> push_front(r, DBool(n1 = n2))
      [] x = "Lt" -> push_front(r, DBool(n1 < n2))

\* the (Float, Float) arm of binop
FloatBinop(r, x, f1, f2) ==
    CASE x = "Add" -> push_front(r, FloatAdd(f1, f2))
      [] x = "Sub" -> push_front(r, FloatSub(f1, f2))
      [] x = "Mul" -> push_front(r, FloatMul(f1, f2))
      [] x = "Div" -> push_front(r, FloatDiv(f1, f2))
      [] x = "Mod" -> push_front(r, FloatRem(f1, f2))
      [] x = "Eq" -> push_front(r, DBool(FloatEq(f1, f2)))
      [] x = "Lt" -> push_front(r, DBool(FloatLt(f1, f2)))

binop(r, x) ==
    IF Len(r.stack) < 2
    THEN Raise(Popped(r, 2), Err("StackUnderflow", OpText(x), 2, 0))
    ELSE LET a == r.stack[1]
             b == r.stack[2]
             r1 == Popped(r, 2)
             bad == Raise(r1, Err("UnexpectedType", OpText(x), 0, 0))
         IN  CASE b.t = "int" /\ a.t = "int" -> IntBinop(r1, x, b.v, a.v)
               [] b.t = "float" /\ a.t = "float" -> FloatBinop(r1, x, b, a)
               [] b.t = "string" /\ a.t = "string" ->
                    LET s1 == read_string(r1, b.v, b.w)
                        s2 == read_string(r1, a.v, a.w)
                    IN  CASE x = "Add" -> push_string(r1, s1 \o s2)
                          [] x = "Eq" -> push_front(r1, DBool(s1 = s2))
                          [] OTHER -> bad
               [] b.t = "bool" /\ a.t = "bool" ->
                    IF x = "Eq" THEN push_front(r1, DBool(b.v = a.v)) ELSE bad
               [] b.t = "array" /\ a.t = "array" ->
                    IF x = "Add"
                    THEN push_array(r1, load_array(r1, b.v) \o load_array(r1, a.v))
                    ELSE bad
               [] OTHER -> bad

StackOps == {"Swap", "Over", "Drop", "Dup", "Rot"}

OpSwap(r) ==
    IF Len(r.stack) >= 2
    THEN [r EXCEPT !.stack = <<@[2], @[1]>> \o PopK(@, 2)]
    ELSE Raise(Popped(r, 2), Err("StackUnderflow", "swap", 2, 0))

OpOver(r) ==
    IF Len(r.stack) >= 2 THEN push_front(r, r.stack[2])
    ELSE Raise(r, Err("StackUnderflow", "over", 2, 0))

OpDrop(r) ==
    IF Len(r.stack) >= 1 THEN Popped(r, 1)
    ELSE Raise(r, Err("StackUnderflow", "drop", 1, 0))

OpDup(r) ==
    IF Len(r.stack) >= 1 THEN push_front(r, r.stack[1])
    ELSE Raise(r, Err("StackUnderflow", "dup", 1, 0))

\* OpRot turning the three values the other way
OpRot_Backwards(r) ==
    IF Len(r.stack) >= 3
    THEN [r EXCEPT !.stack = <<@[2], @[3], @[1]>> \o PopK(@, 3)]
    ELSE Raise(Popped(r, 3), Err("StackUnderflow", "rot", 3, 0))

OpRot(r) ==
    IF Len(r.stack) >= 3
    THEN [r EXCEPT !.stack = <<@[3], @[1], @[2]>> \o PopK(@, 3)]
    ELSE Raise(Popped(r, 3), Err("StackUnderflow", "rot", 3, 0))

\* index.abs() as usize, then arr.len() - i for a negative index.  The
\* result is -1 where the build panics (overflow checks on).
SeqPosition(r, index, len) ==
    LET i == IF index = MinInt
             THEN (IF r.overflow_checks THEN -1 ELSE WrapUsize(MinInt))
             ELSE Abs(index)
    IN  IF i = -1 \/ index >= 0 THEN i
        ELSE IF len - i >= 0 THEN len - i
        ELSE IF r.overflow_checks THEN -1
        ELSE WrapUsize(len - i)

OpSeqIndex(r) ==
    IF Len(r.stack) < 2
    THEN Raise(Popped(r, 2), Err("StackUnderflow", "@", 2, 0))
    ELSE LET a == r.stack[1]
             b == r.stack[2]
             r1 == Popped(r, 2)
         IN  CASE a.t = "int" /\ b.t = "array" ->
                    LET arr == load_array(r1, b.v)
                        i == SeqPosition(r1, a.v, Len(arr))
                    IN  IF i = -1 THEN Panic(r1, "arithmetic overflow")
                        ELSE IF i < Len(arr) THEN push_front(r1, arr[i + 1])
                        ELSE Raise(r1, Err("ArrayOutOfBounds", "", a.v, Len(arr)))
               [] a.t = "int" /\ b.t = "string" ->
                    LET i == SeqPosition(r1, a.v, b.w)
                    IN  IF i = -1 THEN Panic(r1, "arithmetic overflow")
                        ELSE IF i >= b.w
                        THEN Raise(r1, Err("StringOutOfBounds", "", a.v, b.w))
                        ELSE push_front(r1, DString(b.v + i, 1))
               [] OTHER -> Raise(r1, Err("UnexpectedType", "@", 0, 0))

\* a store that writes a copy of the array under a new id instead of the
\* table entry (what the code does not do)
OpSeqAssignAtIndex_Copy(r) ==
    IF Len(r.stack) < 3
    THEN Raise(Popped(r, 3), Err("StackUnderflow", "!", 2, 0))
    ELSE LET a == r.stack[1]
             b == r.stack[2]
             c == r.stack[3]
             r1 == Popped(r, 3)
         IN  CASE a.t = "int" /\ c.t = "array" ->
                    LET arr == load_array(r1, c.v)
                        i == SeqPosition(r1, a.v, Len(arr))
                    IN  IF i = -1 THEN Panic(r1, "arithmetic overflow")
                        ELSE IF i < Len(arr)
                        THEN alloc_array(r1, [arr EXCEPT ![i + 1] = b])
                        ELSE Raise(r1, Err("ArrayOutOfBounds", "", a.v, Len(arr)))
               [] a.t = "int" /\ b.t = "int" /\ c.t = "string" ->
                    LET i == SeqPosition(r1, a.v, c.w)
                    IN  IF i = -1 THEN Panic(r1, "arithmetic overflow")
                        ELSE IF i >= c.w
                        THEN Raise(r1, Err("StringOutOfBounds", "", a.v, c.w))
                        ELSE [r1 EXCEPT !.string_buffer[c.v + i + 1] = b.v % 256]
               [] OTHER -> Raise(r1, Err("UnexpectedType", "!", 0, 0))

OpSeqAssignAtIndex(r) ==
    IF Len(r.stack) < 3
    THEN Raise(Popped(r, 3), Err("StackUnderflow", "!", 2, 0))
    ELSE LET a == r.stack[1]
             b == r.stack[2]
             c == r.stack[3]
             r1 == Popped(r, 3)
         IN  CASE a.t = "int" /\ c.t = "array" ->
                    LET arr == load_array(r1, c.v)
                        i == SeqPosition(r1, a.v, Len(arr))
                    IN  IF i = -1 THEN Panic(r1, "arithmetic overflow")
                        ELSE IF i < Len(arr)
                        THEN [r1 EXCEPT !.arrays[c.v + 1][i + 1] = b]
                        ELSE Raise(r1, Err("ArrayOutOfBounds", "", a.v, Len(arr)))
               [] a.t = "int" /\ b.t = "int" /\ c.t = "string" ->
                    LET i == SeqPosition(r1, a.v, c.w)
                    IN  IF i = -1 THEN Panic(r1, "arithmetic overflow")
                        ELSE IF i >= c.w
                        THEN Raise(r1, Err("StringOutOfBounds", "", a.v, c.w))
                        ELSE [r1 EXCEPT !.string_buffer[c.v + i + 1] = b.v % 256]
               [] OTHER -> Raise(r1, Err("UnexpectedType", "!", 0, 0))

OpIsNil(r) ==
    IF Len(r.stack) >= 1
    THEN push_front(Popped(r, 1), DBool(r.stack[1] = DNil))
    ELSE Raise(r, Err("StackUnderflow", "?", 1, 0))

\* the text println! writes for a value (strings are read from the buffer)
Out(r, d) == [data |-> d, bytes |-> IF d.t = "string"
                                      THEN read_string(r, d.v, d.w) ELSE <<>>]

\* run_node on a Node::Operation
RunOperation(r, op) ==
    CASE op \in BinaryOps -> binop(r, op)
      [] op = "Swap" -> OpSwap(r)
      [] op = "Over" -> OpOver(r)
      [] op = "Drop" -> OpDrop(r)
      [] op = "Dup" -> OpDup(r)
      [] op = "Rot" -> OpRot(r)
      [] op = "Break" -> [r EXCEPT !.loop_break = TRUE]
      [] op = "Continue" -> [r EXCEPT !.loop_continue = TRUE]
      [] op = "Return" -> [r EXCEPT !.proc_return = TRUE]
      [] op = "True" -> push_front(r, DBool(TRUE))
      [] op = "False" -> push_front(r, DBool(FALSE))
      [] op = "Nil" -> push_front(r, DNil)
      [] op = "IsNil" -> OpIsNil(r)
      [] op = "SeqIndex" -> OpSeqIndex(r)
      [] op = "SeqAssignAtIndex" -> OpSeqAssignAtIndex(r)

RTOpKinds ==
    BinaryOps \cup StackOps \cup
    {"Break", "Continue", "Return", "True", "False", "Nil", "IsNil",
     "SeqIndex", "SeqAssignAtIndex"}

RTBuiltins == {"println", "print", "len", "exit", "tostring", "toint"}

\* i64::to_string: the bytes of the decimal text of n
RECURSIVE DigitBytes(_)
DigitBytes(n) ==
    IF n < 10 THEN <<48 + n>>
    ELSE Append(DigitBytes(n \div 10), 48 + (n % 10))
i64_to_string(n) == IF n < 0 THEN <<45>> \o DigitBytes(-n) ELSE DigitBytes(n)

\* f64::to_string of a float that is whole, infinite or NaN
f64_to_string(x) ==
    IF IsNaN(x) THEN <<78, 97, 78>>
    ELSE IF IsInf(x) THEN (IF x.v < 0 THEN <<45>> ELSE <<>>) \o <<105, 110, 102>>
    ELSE i64_to_string(x.v)

bool_to_string(b) ==
    IF b = 1 THEN <<116, 114, 117, 101>> ELSE <<102, 97, 108, 115, 101>>

\* the number a run of digit bytes denotes, or 2^IntWidth when it is larger
RECURSIVE DigitBytesVal(_)
DigitBytesVal(bytes) ==
    IF bytes = <<>> THEN 0
    ELSE LET v == DigitBytesVal(SubSeq(bytes, 1, Len(bytes) - 1)) * 10
                      + (bytes[Len(bytes)] - 48)
         IN  IF v > 2 ^ IntWidth THEN 2 ^ IntWidth ELSE v

ParseOk(n) == [ok |-> TRUE, n |-> n]
ParseErr == [ok |-> FALSE, n |-> 0]

\* i64::from_str that takes no sign
i64_from_str_NoSign(bytes) ==
    IF bytes = <<>> \/ \E i \in 1..Len(bytes) : bytes[i] < 48 \/ bytes[i] > 57
    THEN ParseErr
    ELSE IF InRange(DigitBytesVal(bytes)) THEN ParseOk(DigitBytesVal(bytes))
    ELSE ParseErr

\* i64::from_str: an optional sign and one or more digits, within the range
i64_from_str(bytes) ==
    LET signed == bytes # <<>> /\ bytes[1] \in {43, 45}
        digits == IF signed THEN Tail(bytes) ELSE bytes
        val == IF signed /\ bytes[1] = 45 THEN -DigitBytesVal(digits)
               ELSE DigitBytesVal(digits)
    IN  IF digits = <<>> \/ \E i \in 1..Len(digits) : digits[i] < 48 \/ digits[i] > 57
        THEN ParseErr
        ELSE IF InRange(val) THEN ParseOk(val) ELSE ParseErr

\* `n as i64` of a float: truncated, saturated, 0 for NaN
f64_as_i64(x) ==
    IF IsNaN(x) THEN 0
    ELSE IF IsInf(x) THEN (IF x.v > 0 THEN MaxInt ELSE MinInt)
    ELSE LET q == TruncDiv(x.v, x.w)
         IN  IF q > MaxInt THEN MaxInt ELSE IF q < MinInt THEN MinInt ELSE q

\* Runtime::builtin
builtin(r, x) ==
    LET a == r.stack[1]
        r1 == Popped(r, 1)
    IN  CASE x \in {"println", "print"} ->
                IF Len(r.stack) = 0
                THEN Raise(r, Err("StackUnderflow", x, 1, 0))
                ELSE IF a.t = "array"
                THEN Raise(r1, Err("UnexpectedType", x, 0, 0))
                ELSE [r1 EXCEPT !.output = Append(@, Out(r, a))]
          [] x = "len" ->
                IF Len(r.stack) = 0
                THEN Raise(r, Err("StackUnderflow", "len", 1, 0))
                ELSE IF a.t = "string" THEN push_front(r1, DInt(a.w))
                ELSE IF a.t = "array"
                THEN push_front(r1, DInt(Len(load_array(r1, a.v))))
                ELSE Raise(r1, Err("UnexpectedType", "len", 0, 0))
          [] x = "exit" ->
                IF Len(r.stack) = 0 THEN [r EXCEPT !.status = "exit"]
                ELSE IF a.t = "int"
                THEN [r1 EXCEPT !.status = "exit", !.exit_code = a.v]
                ELSE Raise(r1, Err("UnexpectedType", "exit", 0, 0))
          [] x = "toint" ->
                IF Len(r.stack) = 0
                THEN Raise(r, Err("StackUnderflow", "toint", 1, 0))
                ELSE IF a.t = "string"
                THEN LET parsed == i64_from_str(read_string(r, a.v, a.w))
                     IN  IF parsed.ok THEN push_front(r1, DInt(parsed.n))
                         ELSE push_front(r1, DNil)
                ELSE IF a.t = "float" THEN push_front(r1, DInt(f64_as_i64(a)))
                ELSE IF a.t = "bool" THEN push_front(r1, DInt(a.v))
                ELSE IF a.t = "int" THEN push_front(r1, DInt(a.v))
                ELSE Raise(r1, Err("UnexpectedType", "toint", 0, 0))
          [] x = "tostring" ->
                IF Len(r.stack) = 0
                THEN Raise(r, Err("StackUnderflow", "tostring", 1, 0))
                ELSE IF a.t = "string" THEN push_front(r1, a)
                ELSE IF a.t = "int" THEN push_string(r1, i64_to_string(a.v))
                ELSE IF a.t = "float" THEN push_string(r1, f64_to_string(a))
                ELSE IF a.t = "bool" THEN push_string(r1, bool_to_string(a.v))
                ELSE IF a.t = "nil" THEN push_string(r1, <<110, 105, 108>>)
                ELSE Raise(r1, Err("UnexpectedType", "tostring", 0, 0))

Has(m, key) == key \in DOMAIN m

\* run_node on a Node::Symbol that names no builtin and no procedure
PushSymbol(r, w) ==
    IF Has(r.defs, w) THEN push_front(r, r.defs[w])
    ELSE IF Len(r.locals) > 0
    THEN (IF Has(r.locals[Len(r.locals)], w)
          THEN push_front(r, r.locals[Len(r.locals)][w])
          ELSE Raise(r, Err("InvalidWord", w, 0, 0)))
    ELSE IF Has(r.globals, w) THEN push_front(r, r.globals[w])
    ELSE Raise(r, Err("InvalidWord", w, 0, 0))

\* run_node on a Node::Let
RunLet(r, name) ==
    IF Len(r.stack) = 0 THEN Raise(r, Err("UnboundVariable", name, 0, 0))
    ELSE IF Len(r.locals) > 0
    THEN [Popped(r, 1) EXCEPT
            !.locals[Len(r.locals)] = MapPut(@, name, r.stack[1])]
    ELSE [Popped(r, 1) EXCEPT !.globals = MapPut(@, name, r.stack[1])]

\* HashMap::extend: the entries of other replace those of m
Extend(m, other) ==
    [x \in (DOMAIN m) \cup (DOMAIN other) |->
        IF x \in DOMAIN other THEN other[x] ELSE m[x]]

\* the test made after run_node returns to the for loop of frame f
FrameBreaks(r, f) ==
    /\ f.i > 1
    /\ CASE f.kind = "block" -> r.loop_continue \/ r.loop_break \/ r.proc_return
         [] f.kind = "loop" -> r.loop_break
         [] f.kind = "proc" -> r.proc_return
         [] OTHER -> FALSE

AtEnd(f) == f.i > Len(f.nodes)

\* run_node on a literal
RunLiteral(r, n) ==
    CASE n.k = "IntLit" -> push_front(r, DInt(n.v))
      [] n.k = "FloatLit" -> push_front(r, DFloat(n.v, 1))
      [] n.k = "StringLit" -> push_string(r, as_bytes(n.name))

\* CallProc that lets the depth reach the limit
CallProc_AtLimit(r, w) ==
    LET r1 == [r EXCEPT !.proc_return = FALSE,
                        !.filename = r.procs[w].filename,
                        !.recursion_depth = @ + 1]
    IN  IF r1.recursion_depth > MaxRecursionDepth
        THEN Raise(r1, Err("RecursionDepthOverflow", w, 0, 0))
        ELSE PushFrame(r1, Frame("proc", r.procs[w].body, w, 0))

\* run_node on a Node::Symbol that names a procedure, up to its body
CallProc(r, w) ==
    LET r1 == [r EXCEPT !.proc_return = FALSE,
                        !.filename = r.procs[w].filename,
                        !.recursion_depth = @ + 1]
    IN  IF r1.recursion_depth >= MaxRecursionDepth
        THEN Raise(r1, Err("RecursionDepthOverflow", w, 0, 0))
        ELSE PushFrame(r1, Frame("proc", r.procs[w].body, w, 0))

\* ... and after the body
EndProc(r) ==
    [PopFrame(r) EXCEPT !.recursion_depth = @ - 1,
                        !.filename = r.root_filename,
                        !.proc_return = FALSE]

\* run_node on a Node::If, up to the chosen block
RunIf(r, n) ==
    IF Len(r.stack) = 0 THEN Raise(r, Err("StackUnderflow", "if", 1, 0))
    ELSE LET a == r.stack[1]
             r1 == Popped(r, 1)
         IN  IF a.t # "bool" THEN Raise(r1, Err("UnexpectedType", "if", 0, 0))
             ELSE IF a.v = 1 THEN PushFrame(r1, Frame("block", n.b, "", 0))
             ELSE IF n.v = 1 THEN PushFrame(r1, Frame("block", n.e, "", 0))
             ELSE r1

\* run_node on a Node::Loop, up to the first node of the body
BeginLoop(r, n) ==
    PushFrame([r EXCEPT !.loop_break = FALSE, !.loop_continue = FALSE],
              Frame("loop", n.b, "", 0))

\* ... and after break 'outer
EndLoop(r) ==
    [PopFrame(r) EXCEPT !.loop_break = FALSE, !.loop_continue = FALSE]

\* run_node on a Node::Array, up to the block
BeginArray(r, n) ==
    PushFrame(PushFrame(r, Frame("array_end", <<>>, "", Len(r.stack))),
              Frame("block", n.b, "", 0))

Reverse(s) == [i \in 1..Len(s) |-> s[Len(s) + 1 - i]]

\* ... and after the block
EndArray(r) ==
    LET before_len == TopFrame(r).n
        after_len == Len(r.stack)
        r1 == PopFrame(r)
    IN  IF before_len > after_len /\ r.overflow_checks
        THEN Panic(r1, "attempt to subtract with overflow")
        ELSE LET array_len == IF before_len > after_len THEN 0
                              ELSE after_len - before_len
                 array == Reverse(SubSeq(r.stack, 1, array_len))
             IN  push_array(Popped(r1, array_len), array)

\* the HashMap built by the as..let loop over the variables in reverse
AsLetScope(variables, stack) ==
    [w \in {variables[j] : j \in 1..Len(variables)} |->
        LET first == CHOOSE j \in 1..Len(variables) :
                        variables[j] = w /\ \A k \in 1..(j - 1) : variables[k] # w
        IN  stack[Len(variables) - first + 1]]

\* run_node on a Node::AsLet, up to the block
BeginAsLet(r, n) ==
    IF Len(r.stack) < Len(n.vars)
    THEN Raise(Popped(r, Len(n.vars)),
               Err("UnboundVariable", n.vars[Len(n.vars) - Len(r.stack)], 0, 0))
    ELSE LET r1 == [Popped(r, Len(n.vars)) EXCEPT
                        !.locals = Append(@, AsLetScope(n.vars, r.stack))]
         IN  PushFrame(PushFrame(r1, Frame("aslet_end", <<>>, "", 0)),
                       Frame("block", n.b, "", 0))

\* EndAsLet that leaves the block's scope on the locals stack
EndAsLet_NoPop(r) == PopFrame(r)

\* ... and after the block
EndAsLet(r) ==
    [PopFrame(r) EXCEPT !.locals = SubSeq(@, 1, Len(@) - 1)]

\* one turn of the loop of prepopulate_namespace
Prepopulate(r, n) ==
    CASE n.k = "Import" ->
            IF n.name \notin RTFileNames \/ n.name = r.filename
            THEN Raise(r, Err("ImportError", n.name, 0, 0))
            ELSE [RuntimeNew(RTFileTree(n.name), n.name, r.overflow_checks)
                    EXCEPT !.outer = Append(r.outer, [r EXCEPT !.outer = <<>>]),
                           !.output = r.output, !.steps = r.steps]
      [] n.k = "Proc" ->
            IF Has(r.procs, n.name)
            THEN Raise(r, Err("ProcRedefinition", n.name, 0, 0))
            ELSE [r EXCEPT !.procs = MapPut(@, n.name,
                                [body |-> n.b, filename |-> r.filename])]
      [] n.k = "Def" ->
            IF Has(r.defs, n.name)
            THEN Raise(r, Err("DefRedefinition", n.name, 0, 0))
            ELSE PushFrame(PushFrame(r, Frame("def_end", <<>>, n.name, 0)),
                           Frame("block", n.b, "", 0))
      [] OTHER -> r

\* ... the rest of the Def arm, after run_block
EndDef(r) ==
    IF Len(r.stack) > 0
    THEN [PopFrame(Popped(r, 1)) EXCEPT
            !.defs = MapPut(@, TopFrame(r).name, r.stack[1])]
    ELSE Raise(PopFrame(r), Err("EmptyDefinition", TopFrame(r).name, 0, 0))

\* import() has run the file: self.namespace.extend(x)
EndImport(r) ==
    LET parent == r.outer[Len(r.outer)]
    IN  [parent EXCEPT !.procs = Extend(@, r.procs),
                       !.defs = Extend(@, r.defs),
                       !.globals = Extend(@, r.globals),
                       !.outer = SubSeq(r.outer, 1, Len(r.outer) - 1),
                       !.output = r.output, !.steps = r.steps]

(***************************************************************************)
(* Input trees of SpecRT.                                                  *)
(***************************************************************************)
IntSamples == {MinInt, -2, -1, 0, 1, 3, MaxInt}
FloatSamples == {-1, 0, 2, 3}
IndexSamples == {MinInt, -4, -3, -2, -1, 0, 1, 2, 3, MaxInt}
SeqSOp == Operation("SeqIndex")

ArithPrograms ==
    {<<IntLit(a), IntLit(b), Operation(op)>> :
        a \in IntSamples, b \in IntSamples, op \in BinaryOps}
    \cup {<<FloatLit(a), FloatLit(b), Operation(op)>> :
        a \in FloatSamples, b \in FloatSamples, op \in BinaryOps}
    \cup {<<IntLit(1), FloatLit(0), Operation(op)>> : op \in BinaryOps}
    \cup {<<IntLit(1), Operation(op)>> : op \in BinaryOps}

StackPrograms ==
    {SubSeq(<<IntLit(1), StringLit("hi"), T, IntLit(4)>>, 1, k)
        \o <<Operation(op)>> : k \in 0..4, op \in StackOps}

IndexPrograms ==
    {<<Array(SubSeq(<<IntLit(10), IntLit(20), IntLit(30)>>, 1, n)),
       IntLit(i), SeqSOp>> : n \in 0..3, i \in IndexSamples}
    \cup {<<StringLit(str), IntLit(i), SeqSOp>> :
            str \in {"", "x", "abc"}, i \in IndexSamples}
    \cup {<<Array(<<IntLit(10), IntLit(20)>>), Operation("Dup"), IntLit(9),
            IntLit(i), Operation("SeqAssignAtIndex"), IntLit(0), SeqSOp>> :
            i \in IndexSamples}
    \cup {<<StringLit("abc"), Operation("Dup"), IntLit(104), IntLit(i),
            Operation("SeqAssignAtIndex"), Symbol("println")>> :
            i \in IndexSamples}

RTLeaves ==
    {<<Brk>>, <<Cont>>, <<Ret>>, <<Symbol("a")>>, <<Symbol("b")>>,
     <<IntLit(3), Let("a")>>}

RTWrap(b) ==
    {<<IntLit(1), AsLet(<<"a">>, b)>>, <<IntLit(2), AsLet(<<"b">>, b)>>,
     <<T, If(b)>>, <<Loop(b \o <<Brk>>)>>, <<Array(b)>>}

RECURSIVE RTChains(_)
RTChains(d) ==
    IF d = 0 THEN RTLeaves
    ELSE LET inner == RTChains(d - 1)
         IN  inner \cup UNION {RTWrap(b) : b \in inner}

ScopePrograms ==
    {c \o <<Symbol("a")>> : c \in RTChains(MaxNest)}
    \cup {<<IntLit(8), Let("a")>> \o c \o <<Symbol("a")>> :
            c \in RTChains(MaxNest)}
    \cup {<<Proc("f", c), Symbol("f"), Symbol("a")>> : c \in RTChains(MaxNest)}

RTScenarios ==
    {<<IntLit(1), IntLit(2), Operation("Add"), Symbol("println")>>,
     <<Proc("sq", <<Operation("Dup"), Operation("Mul")>>), IntLit(5),
       Symbol("sq"), Symbol("println")>>,
     <<Loop(<<IntLit(1), Brk>>), IntLit(42), Symbol("println")>>,
     <<IntLit(1), IntLit(2), AsLet(<<"a", "b">>, <<Symbol("a"), Symbol("b")>>),
       Symbol("b")>>,
     <<IntLit(1), IntLit(2), AsLet(<<"a", "a">>, <<Symbol("a")>>)>>,
     <<IntLit(1), AsLet(<<"a", "b">>, <<Symbol("a")>>)>>,
     <<Import("lib.pile"), Symbol("h"), Symbol("K"), Symbol("g"),
       Operation("Add"), Operation("Add"), Symbol("println")>>,
     <<Import("self.pile")>>, <<Import("bad.pile")>>, <<Import("none.pile")>>,
     <<Proc("f", <<Symbol("f")>>), Symbol("f")>>,
     <<Proc("f", <<IntLit(1)>>), Proc("f", <<IntLit(2)>>)>>,
     <<Def("d", <<IntLit(1)>>), Def("d", <<IntLit(2)>>)>>,
     <<Def("d", <<>>)>>,
     <<Def("A", <<IntLit(1), IntLit(2)>>), Def("B", <<>>), Symbol("B"),
       Symbol("println")>>,
     <<Def("A", <<IntLit(1), IntLit(2)>>), Def("B", <<Operation("Drop")>>)>>,
     <<Def("d", <<IntLit(3), IntLit(4)>>), Symbol("d"), Symbol("println"),
       Loop(<<>>)>>,
     <<StringLit("abc"), Operation("Dup"), Operation("Add"),
       Operation("Dup"), Operation("Add"), Symbol("len"), Symbol("print"),
       StringLit("abc"), Symbol("len")>>,
     <<Array(<<IntLit(1)>>), Operation("Dup"), Operation("Add"),
       Operation("Dup"), Symbol("len"), Symbol("exit")>>,
     <<Array(<<>>), Symbol("println")>>, <<Symbol("exit")>>,
     <<Operation("Nil"), Operation("IsNil"), If(<<T, Symbol("exit")>>)>>,
     <<IntLit(1), If(<<>>)>>, <<If(<<>>)>>, <<Let("a")>>,
     <<F, IfElse(<<IntLit(1)>>, <<IntLit(2)>>), F, If(<<IntLit(3)>>)>>,
     <<IntLit(1), Array(<<Operation("Drop")>>)>>,
     <<Proc("f", <<Loop(<<Ret>>)>>), Symbol("f")>>,
     <<Array(<<IntLit(1), Array(<<IntLit(2)>>), IntLit(3)>>), IntLit(0),
       Array(<<>>)>>,
     <<Proc("mk", <<Array(<<IntLit(1)>>)>>), IntLit(5), Symbol("mk"),
       Symbol("mk"), Operation("Add"), Symbol("mk")>>,
     <<Import("arr.pile"), Array(<<IntLit(9)>>), Symbol("A"), IntLit(0),
       Operation("SeqIndex"), Symbol("println")>>,
     <<IntLit(1), IntLit(2), Array(<<Operation("Swap"), IntLit(3)>>)>>,
     <<Array(<<IntLit(1), IntLit(2)>>), Let("g"), Array(<<Symbol("g")>>),
       Symbol("g"), IntLit(7), IntLit(0), Operation("SeqAssignAtIndex"),
       IntLit(0), Operation("SeqIndex"), IntLit(0), Operation("SeqIndex"),
       Symbol("println")>>,
     <<Proc("f", <<IntLit(1), AsLet(<<"a">>,
            <<IntLit(2), AsLet(<<"a">>, <<Ret, IntLit(9)>>), Symbol("a")>>),
         IntLit(7)>>), Symbol("f"), Symbol("println")>>,
     <<StringLit("hi"), StringLit("hi"), Operation("Eq"), T, Operation("Eq"),
       T, Operation("Add")>>}

\* conditions of every type in front of an if with and without else
CondSamples ==
    {T, F, Operation("Nil"), IntLit(0), IntLit(1), FloatLit(0), StringLit(""),
     StringLit("x"), Array(<<>>)}

CondPrograms ==
    {<<c, IfElse(<<IntLit(1)>>, <<IntLit(2)>>), Symbol("println")>> :
        c \in CondSamples}
    \cup {<<IntLit(5), c, If(<<IntLit(1), Operation("Add")>>),
            Symbol("println")>> : c \in CondSamples}
    \cup {<<If(<<IntLit(1)>>)>>}

ToStr == Symbol("tostring")
ToInt == Symbol("toint")

\* conversions: every sample Int under a stack, the other types, texts that
\* are and are not numbers, and a string buffer that fills up
ConvertPrograms ==
    {<<StringLit("x"), IntLit(n), ToStr, ToInt, Symbol("println")>> :
        n \in IntSamples \cup {10, 100, -100}}
    \cup {<<c, ToStr, ToInt>> : c \in CondSamples}
    \cup {<<c, ToInt, ToStr>> : c \in CondSamples}
    \cup {<<StringLit(t), ToInt, ToStr, ToInt>> :
            t \in {"12", "-3", "+5", "1x", "-", "", "abc"}}
    \cup {<<ToStr>>, <<ToInt>>, <<Symbol("exit")>>,
          <<IntLit(3), Symbol("exit")>>, <<T, Symbol("exit")>>,
          <<Proc("p", <<Symbol("exit")>>), Symbol("p"), IntLit(1)>>,
          <<StringLit("abc"), StringLit("abc"), StringLit("abc"),
            IntLit(-100), ToStr, ToInt>>,
          <<IntLit(-100), Loop(<<ToStr, ToInt>>)>>,
          <<FloatLit(3), IntLit(0), Operation("Div"), ToInt>>,
          <<FloatLit(3), FloatLit(2), Operation("Div"), ToInt, ToStr>>}

\* return and continue inside loops, directly and inside an if
LoopPrograms ==
    {<<Proc("f", <<Loop(<<Ret>>), IntLit(2)>>), Symbol("f"), IntLit(1)>>,
     <<Proc("f", <<Loop(<<T, If(<<Ret>>)>>)>>), Symbol("f"), IntLit(1)>>,
     <<Proc("f", <<Loop(<<IntLit(1), Brk>>), Ret, IntLit(2)>>), Symbol("f"),
       Symbol("println")>>,
     <<Loop(<<Cont, IntLit(1), Brk>>), IntLit(2)>>,
     <<Loop(<<T, If(<<Cont>>), IntLit(1), Brk>>)>>,
     <<Loop(<<F, If(<<Cont>>), IntLit(1), Brk>>), IntLit(2)>>,
     <<Loop(<<T, If(<<Cont, IntLit(7)>>), T, If(<<IntLit(1), IntLit(2)>>),
              Brk>>)>>,
     <<Loop(<<Loop(<<Brk>>), T, If(<<Brk>>)>>), Cont, IntLit(1)>>}

\* calls in calls, recursion, and the procedures, definitions and imports
\* of imported files
CallPrograms ==
    {<<Proc("g", <<Ret, IntLit(9)>>), Proc("f", <<Symbol("g"), IntLit(1)>>),
       Symbol("f"), Symbol("println")>>,
     <<Proc("f", <<Symbol("f")>>), Symbol("f")>>,
     <<Proc("f", <<T, If(<<Ret>>), Symbol("f")>>), Symbol("f"), Symbol("f")>>,
     <<Import("calls.pile"), Symbol("outer"), Symbol("inner")>>,
     <<Import("calls.pile"), Proc("f", <<Symbol("outer")>>), Symbol("f")>>,
     <<Import("str.pile"), Symbol("S"), Symbol("println")>>,
     <<StringLit("hi"), Import("str.pile"), Symbol("S"), IntLit(0),
       Operation("SeqIndex"), Symbol("println")>>,
     <<Import("a.pile"), IntLit(1)>>, <<Import("self.pile")>>,
     <<Import("main.pile")>>, <<Import("lib.pile"), Import("lib.pile")>>}

RTPrograms ==
    ArithPrograms \cup StackPrograms \cup IndexPrograms \cup ScopePrograms
    \cup CondPrograms \cup RTScenarios \cup ConvertPrograms \cup LoopPrograms
    \cup CallPrograms

(***************************************************************************)
(* SpecRT: Runtime::run, one node or one block exit per step.  hist is a   *)
(* history variable: the last step taken (event, node), the state before   *)
(* it (pre), the state at the entry of every open as..let block (entries)  *)
(* and the entry state of the as..let block that ended last (exit); prev   *)
(* is the step before the last one, with the state before it; callers has  *)
(* the filename and recursion_depth at the call of every procedure call in *)
(* progress, returned those of the call that returned last.                *)
(***************************************************************************)
\* a loop is running in the procedure call (or top-level code) in progress
InLoop(r) ==
    \E i \in 1..Len(r.ctrl) :
        /\ r.ctrl[i].kind = "loop"
        /\ \A j \in (i + 1)..Len(r.ctrl) : r.ctrl[j].kind # "proc"

\* ... and a procedure call is in progress around that loop
InLoopInProc(r) ==
    \E i, k \in 1..Len(r.ctrl) :
        /\ k < i /\ r.ctrl[k].kind = "proc" /\ r.ctrl[i].kind = "loop"
        /\ \A j \in (i + 1)..Len(r.ctrl) : r.ctrl[j].kind # "proc"

Snapshot(r) ==
    [stack |-> r.stack, in_loop |-> InLoop(r), in_proc_loop |-> InLoopInProc(r),
     recursion_depth |-> r.recursion_depth, filename |-> r.filename, locals |-> r.locals, globals |-> r.globals,
     defs |-> r.defs, procs |-> DOMAIN r.procs, arrays |-> r.arrays,
     string_buffer |-> r.string_buffer, loop_break |-> r.loop_break,
     loop_continue |-> r.loop_continue, proc_return |-> r.proc_return,
     status |-> r.status, mark |-> TopFrame(r).n, name |-> TopFrame(r).name,
     depth |-> Len(r.ctrl)]

\* s has the stack below as its bottom part
KeepsBelow(s, below) ==
    Len(s) >= Len(below) /\ SubSeq(s, Len(s) - Len(below) + 1, Len(s)) = below

InitRT ==
    /\ program \in RTPrograms
    /\ \E overflow_checks \in BOOLEAN :
          rt = RuntimeNew(program, "main.pile", overflow_checks)
    /\ hist = [event |-> "new", node |-> IntLit(0), pre |-> Snapshot(rt),
               entries |-> <<>>,
               exit |-> [pre |-> Snapshot(rt), variables |-> <<>>],
               created |-> {}, fresh |-> {},
               marks |-> <<>>, mark_exit |-> [stack |-> <<>>, intact |-> TRUE],
               def_entry |-> <<>>,
               prev |-> [event |-> "", node |-> IntLit(0), pre |-> Snapshot(rt)],
               callers |-> <<>>,
               returned |-> [filename |-> "", recursion_depth |-> 0]]
    /\ compiler = CompilerNew /\ vm = Fail(VMNew, "idle") /\ obs = <<>>
    /\ parser = <<>> /\ lexer = <<>>

KeepRT == UNCHANGED <<program, compiler, vm, obs, parser, lexer>>

RTRunning == rt.status = "running" /\ rt.steps < MaxSteps
\* the walk is inside a for loop over nodes, with a node left to run
AtNode ==
    /\ RTRunning
    /\ TopFrame(rt).kind \in {"run", "block", "loop", "proc"}
    /\ ~FrameBreaks(rt, TopFrame(rt)) /\ ~AtEnd(TopFrame(rt))
CurNode == TopFrame(rt).nodes[TopFrame(rt).i]
LeavesFrame(kind) ==
    /\ RTRunning /\ TopFrame(rt).kind = kind
    /\ FrameBreaks(rt, TopFrame(rt)) \/ AtEnd(TopFrame(rt))

\* the ids of the arrays the step has added to the table of the Runtime
NewIds ==
    IF Len(rt'.outer) = Len(rt.outer)
    THEN Len(rt.arrays)..(Len(rt'.arrays) - 1) ELSE {}

\* the open array literals, each with whether the stack below it is intact
Marked(event) ==
    LET open == CASE event = "array" /\ rt'.status = "running" ->
                        Append(hist.marks, [stack |-> rt.stack, intact |-> TRUE])
                  [] event = "array_end" ->
                        SubSeq(hist.marks, 1, Len(hist.marks) - 1)
                  [] OTHER -> hist.marks
    IN  [i \in 1..Len(open) |->
            [open[i] EXCEPT !.intact = @ /\ KeepsBelow(rt'.stack, open[i].stack)]]

Did(event, node) ==
    hist' = [hist EXCEPT !.event = event, !.node = node, !.pre = Snapshot(rt),
                         !.prev = [event |-> hist.event, node |-> hist.node,
                                   pre |-> hist.pre],
                         !.callers =
                            IF event = "call" /\ rt'.status = "running"
                            THEN Append(@, [filename |-> rt.filename,
                                            recursion_depth |-> rt.recursion_depth])
                            ELSE IF event = "proc_end"
                            THEN SubSeq(@, 1, Len(@) - 1) ELSE @,
                         !.returned = IF event = "proc_end"
                                      THEN hist.callers[Len(hist.callers)] ELSE @,
                         !.created = @ \cup hist.fresh, !.fresh = NewIds,
                         !.marks = Marked(event),
                         !.mark_exit = IF event = "array_end"
                                       THEN hist.marks[Len(hist.marks)] ELSE @,
                         !.def_entry = IF event = "prepopulate" /\ node.k = "Def"
                                       THEN rt.stack ELSE @]

RTPrepopulate ==
    /\ RTRunning /\ TopFrame(rt).kind = "prepopulate" /\ ~AtEnd(TopFrame(rt))
    /\ rt' = Prepopulate(Advance(rt), CurNode)
    /\ Did("prepopulate", CurNode) /\ KeepRT

\* prepopulate_namespace returns Ok: run goes on to its own loop
RTPrepopulated ==
    /\ RTRunning /\ TopFrame(rt).kind = "prepopulate" /\ AtEnd(TopFrame(rt))
    /\ rt' = PopFrame(rt)
    /\ Did("prepopulated", hist.node) /\ KeepRT

RTDefEnd ==
    /\ RTRunning /\ TopFrame(rt).kind = "def_end"
    /\ rt' = EndDef(rt)
    /\ Did("def_end", hist.node) /\ KeepRT

RTLiteral ==
    /\ AtNode /\ CurNode.k \in {"IntLit", "FloatLit", "StringLit"}
    /\ rt' = RunLiteral(Advance(rt), CurNode)
    /\ Did("literal", CurNode) /\ KeepRT

RTOperation ==
    /\ AtNode /\ CurNode.k = "Operation"
    /\ rt' = RunOperation(Advance(rt), CurNode.name)
    /\ Did("operation", CurNode) /\ KeepRT

\* a float that is not whole is never brought to tostring
RTBuiltin ==
    /\ AtNode /\ CurNode.k = "Symbol" /\ CurNode.name \in RTBuiltins
    /\ ~(CurNode.name = "tostring" /\ rt.stack # <<>>
          /\ rt.stack[1].t = "float" /\ rt.stack[1].w > 1)
    /\ rt' = builtin(Advance(rt), CurNode.name)
    /\ Did("builtin", CurNode) /\ KeepRT

RTCall ==
    /\ AtNode /\ CurNode.k = "Symbol" /\ CurNode.name \notin RTBuiltins
    /\ Has(rt.procs, CurNode.name)
    /\ rt' = CallProc(Advance(rt), CurNode.name)
    /\ Did("call", CurNode) /\ KeepRT

RTProcEnd ==
    /\ LeavesFrame("proc")
    /\ rt' = EndProc(rt)
    /\ Did("proc_end", hist.node) /\ KeepRT

RTSymbol ==
    /\ AtNode /\ CurNode.k = "Symbol" /\ CurNode.name \notin RTBuiltins
    /\ ~Has(rt.procs, CurNode.name)
    /\ rt' = PushSymbol(Advance(rt), CurNode.name)
    /\ Did("symbol", CurNode) /\ KeepRT

RTIf ==
    /\ AtNode /\ CurNode.k = "If"
    /\ rt' = RunIf(Advance(rt), CurNode)
    /\ Did("if", CurNode) /\ KeepRT

\* run_block returns
RTBlockEnd ==
    /\ LeavesFrame("block")
    /\ rt' = PopFrame(rt)
    /\ Did("block_end", hist.node) /\ KeepRT

RTLoop ==
    /\ AtNode /\ CurNode.k = "Loop"
    /\ rt' = BeginLoop(Advance(rt), CurNode)
    /\ Did("loop", CurNode) /\ KeepRT

\* the for loop over the body is over: 'outer starts it again
RTLoopAgain ==
    /\ RTRunning /\ TopFrame(rt).kind = "loop"
    /\ ~FrameBreaks(rt, TopFrame(rt)) /\ AtEnd(TopFrame(rt))
    /\ rt' = [rt EXCEPT !.ctrl[Len(rt.ctrl)].i = 1, !.steps = @ + 1]
    /\ Did("loop_again", hist.node) /\ KeepRT

RTLoopEnd ==
    /\ RTRunning /\ TopFrame(rt).kind = "loop" /\ FrameBreaks(rt, TopFrame(rt))
    /\ rt' = EndLoop(rt)
    /\ Did("loop_end", hist.node) /\ KeepRT

RTArray ==
    /\ AtNode /\ CurNode.k = "Array"
    /\ rt' = BeginArray(Advance(rt), CurNode)
    /\ Did("array", CurNode) /\ KeepRT

RTArrayEnd ==
    /\ RTRunning /\ TopFrame(rt).kind = "array_end"
    /\ rt' = EndArray(rt)
    /\ Did("array_end", hist.node) /\ KeepRT

RTLet ==
    /\ AtNode /\ CurNode.k = "Let"
    /\ rt' = RunLet(Advance(rt), CurNode.name)
    /\ Did("let", CurNode) /\ KeepRT

RTAsLet ==
    /\ AtNode /\ CurNode.k = "AsLet"
    /\ rt' = BeginAsLet(Advance(rt), CurNode)
    /\ hist' = [hist EXCEPT
            !.event = "aslet", !.node = CurNode, !.pre = Snapshot(rt),
            !.prev = [event |-> hist.event, node |-> hist.node, pre |-> hist.pre],
            !.created = @ \cup hist.fresh, !.fresh = {}, !.marks = Marked("aslet"),
            !.entries = IF rt'.status = "running"
                        THEN Append(@, [pre |-> Snapshot(rt),
                                        variables |-> CurNode.vars])
                        ELSE @]
    /\ KeepRT

RTAsLetEnd ==
    /\ RTRunning /\ TopFrame(rt).kind = "aslet_end"
    /\ rt' = EndAsLet(rt)
    /\ hist' = [hist EXCEPT
            !.event = "aslet_end", !.pre = Snapshot(rt),
            !.prev = [event |-> hist.event, node |-> hist.node, pre |-> hist.pre],
            !.created = @ \cup hist.fresh, !.fresh = {}, !.marks = Marked("aslet_end"),
            !.exit = hist.entries[Len(hist.entries)],
            !.entries = SubSeq(@, 1, Len(@) - 1)]
    /\ KeepRT

\* Proc, Def and Import nodes do nothing in run_node
RTSkip ==
    /\ AtNode /\ CurNode.k \in {"Proc", "Def", "Import"}
    /\ rt' = Advance(rt)
    /\ Did("skip", CurNode) /\ KeepRT

\* run of an imported file returns Ok to prepopulate_namespace
RTImportEnd ==
    /\ LeavesFrame("run") /\ Len(rt.outer) > 0
    /\ rt' = EndImport(rt)
    /\ Did("import_end", hist.node) /\ KeepRT

RTDone ==
    /\ LeavesFrame("run") /\ Len(rt.outer) = 0
    /\ rt' = [rt EXCEPT !.status = "done"]
    /\ Did("done", hist.node) /\ KeepRT

\* the walk is cut off after MaxSteps nodes
RTCutoff ==
    /\ rt.status = "running" /\ rt.steps >= MaxSteps
    /\ rt' = [rt EXCEPT !.status = "cutoff"]
    /\ Did("cutoff", hist.node) /\ KeepRT

NextRT ==
    \/ RTPrepopulate \/ RTPrepopulated \/ RTDefEnd \/ RTLiteral
    \/ RTOperation \/ RTBuiltin \/ RTCall \/ RTProcEnd \/ RTSymbol \/ RTIf
    \/ RTBlockEnd \/ RTLoop \/ RTLoopAgain \/ RTLoopEnd \/ RTArray
    \/ RTArrayEnd \/ RTLet \/ RTAsLet \/ RTAsLetEnd \/ RTSkip
    \/ RTImportEnd \/ RTDone \/ RTCutoff

SpecRT == InitRT /\ [][NextRT]_vars

(***************************************************************************)
(* Claims about the tree-walking Runtime (checked under SpecRT).           *)
(***************************************************************************)
LastOp(ops) == hist.event = "operation" /\ hist.node.name \in ops

\* the stack notation of the language: bottom first, top last
Notation(stack) == Reverse(stack)

StackNeed(op) ==
    CASE op = "Dup" -> 1 [] op = "Drop" -> 1 [] op = "Swap" -> 2
      [] op = "Over" -> 2 [] op = "Rot" -> 3

\* the right-hand side of (a b c -- ...) for the listed values t
StackEffect(op, t) ==
    CASE op = "Dup" -> <<t[1], t[1]>>
      [] op = "Drop" -> <<>>
      [] op = "Swap" -> <<t[2], t[1]>>
      [] op = "Over" -> <<t[1], t[2], t[1]>>
      [] op = "Rot" -> <<t[2], t[3], t[1]>>

StackErrName(op) ==
    CASE op = "Dup" -> "dup" [] op = "Drop" -> "drop" [] op = "Swap" -> "swap"
      [] op = "Over" -> "over" [] op = "Rot" -> "rot"

\* C4: dup, drop, swap, over and rot map the listed top values as their
\* stack effect says and leave everything below unchanged; with fewer
\* values than needed (1, 1, 2, 2, 3) they fail with StackUnderflow.
C4_StackContract ==
    LastOp(StackOps) =>
        LET op == hist.node.name
            before == Notation(hist.pre.stack)
            need == StackNeed(op)
            below == SubSeq(before, 1, Len(before) - need)
            listed == SubSeq(before, Len(before) - need + 1, Len(before))
        IN  IF Len(before) >= need
            THEN /\ rt.status = "running"
                 /\ Notation(rt.stack) = below \o StackEffect(op, listed)
            ELSE /\ rt.status = "error"
                 /\ rt.error = Err("StackUnderflow", StackErrName(op), need, 0)

C4_Witness ==
    /\ LastOp({"Rot"}) /\ Len(hist.pre.stack) = 4 /\ rt.status = "running"
    /\ rt.stack[4] = hist.pre.stack[4] /\ rt.stack[1] # hist.pre.stack[1]

\* what a name resolves to in a namespace: the value PushSymbol pushes
Resolves(defs, locals, globals, w) ==
    LET r0 == [RuntimeNew(<<>>, "", FALSE) EXCEPT
                    !.defs = defs, !.locals = locals, !.globals = globals]
        r1 == PushSymbol(r0, w)
    IN  [found |-> r1.status = "running", value |-> r1.stack]

\* C6: when an as..let block ends, by the end of its body or by a break,
\* continue or return inside it, the locals stack is what it was before
\* the block and each of its names resolves as it did before the block.
C6_AsLetBindingsEnd ==
    hist.event = "aslet_end" =>
        LET entry == hist.exit.pre
        IN  /\ rt.status = "running"
            /\ Len(rt.locals) = Len(entry.locals)
            /\ rt.locals = entry.locals
            /\ \A j \in 1..Len(hist.exit.variables) :
                  Resolves(rt.defs, rt.locals, rt.globals, hist.exit.variables[j])
                  = Resolves(entry.defs, entry.locals, entry.globals,
                             hist.exit.variables[j])

C6_Witness ==
    /\ hist.event = "aslet_end" /\ hist.pre.proc_return
    /\ Len(hist.pre.locals) = 2 /\ Len(rt.locals) = 1
    /\ hist.exit.variables = <<"a">>
    /\ Has(rt.locals[1], "a") /\ Has(hist.pre.locals[2], "a")
    /\ hist.pre.locals[2]["a"] # rt.locals[1]["a"]

\* C7: a name that is neither a builtin nor a procedure resolves to the
\* binding of the innermost open scope that binds it (the globals being the
\* outermost scope), else to its definition, else it is an invalid-word
\* error.
C7_LookupInnermostFirst ==
    hist.event = "symbol" =>
        LET w == hist.node.name
            scopes == <<hist.pre.globals>> \o hist.pre.locals
            binding == {i \in 1..Len(scopes) : Has(scopes[i], w)}
            innermost == CHOOSE i \in binding : \A j \in binding : j <= i
        IN  IF binding # {}
            THEN /\ rt.status = "running"
                 /\ rt.stack = <<scopes[innermost][w]>> \o hist.pre.stack
            ELSE IF Has(hist.pre.defs, w)
            THEN /\ rt.status = "running"
                 /\ rt.stack = <<hist.pre.defs[w]>> \o hist.pre.stack
            ELSE rt.status = "error" /\ rt.error.kind = "InvalidWord"

IsZero(d) == d.t \in {"int", "float"} /\ d.v = 0 /\ (d.t = "float" => d.w # 0)

\* C8: / and % with a zero right operand, on two ints or on two floats, end
\* the run with the DivisionByZero error.
C8_DivisionByZeroReported ==
    ( /\ LastOp({"Div", "Mod"}) /\ Len(hist.pre.stack) >= 2
      /\ hist.pre.stack[1].t = hist.pre.stack[2].t
      /\ IsZero(hist.pre.stack[1]) )
    => rt.status = "error" /\ rt.error.kind = "DivisionByZero"

\* C9: @ with an int index i on an array or string of length n pushes
\* element i when 0 <= i < n and fails with ArrayOutOfBounds(i, n) or
\* StringOutOfBounds(i, n) otherwise, so for every negative i.
C9_IndexBounds ==
    ( /\ LastOp({"SeqIndex"}) /\ Len(hist.pre.stack) >= 2
      /\ hist.pre.stack[1].t = "int"
      /\ hist.pre.stack[2].t \in {"array", "string"} )
    => LET i == hist.pre.stack[1].v
           seq == hist.pre.stack[2]
           rest == PopK(hist.pre.stack, 2)
           n == IF seq.t = "array" THEN Len(hist.pre.arrays[seq.v + 1])
                ELSE seq.w
       IN  IF 0 <= i /\ i < n
           THEN /\ rt.status = "running"
                /\ rt.stack = <<IF seq.t = "array"
                                THEN hist.pre.arrays[seq.v + 1][i + 1]
                                ELSE DString(seq.v + i, 1)>> \o rest
           ELSE /\ rt.status = "error"
                /\ rt.error = Err(IF seq.t = "array" THEN "ArrayOutOfBounds"
                                  ELSE "StringOutOfBounds", "", i, n)

\* C10: + - * / on two ints push the two's complement result (the exact
\* result wrapped to the width of i64) and never abort the run.
C10_IntegerArithmeticWraps ==
    ( /\ LastOp({"Add", "Sub", "Mul", "Div"}) /\ Len(hist.pre.stack) >= 2
      /\ hist.pre.stack[1].t = "int" /\ hist.pre.stack[2].t = "int"
      /\ ~(hist.node.name = "Div" /\ hist.pre.stack[1].v = 0) )
    => LET n1 == hist.pre.stack[2].v
           n2 == hist.pre.stack[1].v
           op == hist.node.name
           exact == CASE op = "Add" -> n1 + n2 [] op = "Sub" -> n1 - n2
                      [] op = "Mul" -> n1 * n2 [] op = "Div" -> TruncDiv(n1, n2)
       IN  /\ rt.status = "running"
           /\ rt.stack = <<DInt(WrapInt(exact))>> \o PopK(hist.pre.stack, 2)

\* C11: when the body of an array literal has left the stack below the
\* recorded depth alone, the values above that depth are replaced by one
\* Array(id) holding them bottom-to-top, the id is the id of no array
\* created earlier in the run, and the stack below is unchanged.
C11_ArrayLiteralMaterialises ==
    ( /\ hist.event = "array_end" /\ hist.mark_exit.intact
      /\ Len(hist.pre.stack) >= hist.pre.mark )
    => LET s == hist.pre.stack
           k == Len(s) - hist.pre.mark
       IN  /\ rt.status = "running"
           /\ Len(rt.stack) = hist.pre.mark + 1
           /\ rt.stack[1].t = "array"
           /\ Tail(rt.stack) = SubSeq(s, k + 1, Len(s))
           /\ Tail(rt.stack) = hist.mark_exit.stack
           /\ rt.arrays[rt.stack[1].v + 1] = Reverse(SubSeq(s, 1, k))
           /\ rt.stack[1].v \notin hist.created

\* the Array(k) values held on the stack, in the variables, in the
\* definitions and in the elements of the arrays
Holder(in, at, name) == [in |-> in, at |-> at, name |-> name]
Holders(stack, locals, globals, defs, arrays, k) ==
    {Holder("stack", j, "") : j \in {j \in 1..Len(stack) : stack[j] = DArray(k)}}
    \cup UNION {{Holder("local", j, w) :
                    w \in {w \in DOMAIN locals[j] : locals[j][w] = DArray(k)}} :
                j \in 1..Len(locals)}
    \cup {Holder("global", 0, w) :
             w \in {w \in DOMAIN globals : globals[w] = DArray(k)}}
    \cup {Holder("def", 0, w) : w \in {w \in DOMAIN defs : defs[w] = DArray(k)}}
    \cup UNION {{Holder("elem", q * 8 + l, "") :
                    l \in {l \in 1..Len(arrays[q]) : arrays[q][l] = DArray(k)}} :
                q \in 1..Len(arrays)}

\* `!` on (array, any, int) with 0 <= index < len
ValidStore ==
    /\ LastOp({"SeqAssignAtIndex"}) /\ Len(hist.pre.stack) >= 3
    /\ hist.pre.stack[1].t = "int" /\ hist.pre.stack[3].t = "array"
    /\ hist.pre.stack[3].v < Len(hist.pre.arrays)
    /\ 0 <= hist.pre.stack[1].v
    /\ hist.pre.stack[1].v < Len(hist.pre.arrays[hist.pre.stack[3].v + 1])

\* C12: `!` at a valid index i of the array k writes the value into the
\* table entry of k, so every holder of Array(k) reads it at i; the length
\* of the array, its other elements, every other array and every holder
\* are as before.
C12_StoreSharedThroughId ==
    ValidStore
    => LET i == hist.pre.stack[1].v
           v == hist.pre.stack[2]
           k == hist.pre.stack[3].v
           old == hist.pre.arrays
       IN  /\ rt.status = "running"
           /\ Len(rt.arrays) = Len(old)
           /\ Len(rt.arrays[k + 1]) = Len(old[k + 1])
           /\ rt.arrays[k + 1][i + 1] = v
           /\ \A l \in 1..Len(old[k + 1]) :
                 l # i + 1 => rt.arrays[k + 1][l] = old[k + 1][l]
           /\ \A q \in 1..Len(old) : q # k + 1 => rt.arrays[q] = old[q]
           /\ rt.stack = PopK(hist.pre.stack, 3)
           /\ rt.locals = hist.pre.locals /\ rt.globals = hist.pre.globals
           /\ rt.defs = hist.pre.defs
           /\ \A q \in 0..(Len(old) - 1) :
                 Holders(rt.stack, rt.locals, rt.globals, rt.defs, rt.arrays, q)
                    \ {Holder("elem", (k + 1) * 8 + i + 1, "")}
                 = Holders(PopK(hist.pre.stack, 3), hist.pre.locals,
                           hist.pre.globals, hist.pre.defs, old, q)
                    \ {Holder("elem", (k + 1) * 8 + i + 1, "")}

\* a store through one holder, read through another: the array is held by
\* a variable and by an element of another array, and the element changes
C12_Witness ==
    /\ ValidStore /\ rt.status = "running"
    /\ rt.arrays[hist.pre.stack[3].v + 1] # hist.pre.arrays[hist.pre.stack[3].v + 1]
    /\ \E h \in Holders(rt.stack, rt.locals, rt.globals, rt.defs, rt.arrays,
                         hist.pre.stack[3].v) : h.in = "global"
    /\ \E h \in Holders(rt.stack, rt.locals, rt.globals, rt.defs, rt.arrays,
                         hist.pre.stack[3].v) : h.in = "elem"

\* Nil and Bool(false)
IsFalsy(d) == d = DNil \/ d = DBool(FALSE)

\* C13: an if with a value on the stack pops it and runs the else block
\* (or nothing, without else) when the value is Nil or Bool(false) and the
\* then block for every other value, of whatever type, without an error.
C13_IfTruthiness ==
    (hist.event = "if" /\ Len(hist.pre.stack) >= 1)
    => LET a == hist.pre.stack[1]
           n == hist.node
           Runs(block) == /\ Len(rt.ctrl) = hist.pre.depth + 1
                          /\ TopFrame(rt).kind = "block"
                          /\ TopFrame(rt).nodes = block /\ TopFrame(rt).i = 1
       IN  /\ rt.status = "running"
           /\ rt.stack = Tail(hist.pre.stack)
           /\ IF ~IsFalsy(a) THEN Runs(n.b)
              ELSE IF n.v = 1 THEN Runs(n.e)
              ELSE Len(rt.ctrl) = hist.pre.depth

\* C14: when the body of a def has left nothing above the stack it started
\* on, the def fails with EmptyDefinition(NAME), whatever that stack holds;
\* no value that was on the stack before the body is captured.
C14_EmptyDefinitionIsError ==
    ( /\ hist.event = "def_end"
      /\ KeepsBelow(hist.def_entry, hist.pre.stack) )
    => /\ rt.status = "error"
       /\ rt.error = Err("EmptyDefinition", hist.pre.name, 0, 0)
       /\ rt.defs = hist.pre.defs

(***************************************************************************)
(* Span coverage of the emitted code (Spec).                               *)
(***************************************************************************)
\* the instructions whose execution can end in a runtime error
CanRaise(ins) ==
    ins.op \notin {"Push", "PushString", "Jump", "BeginScope", "EndScope",
                   "BeginArray", "SetSpan"}

\* where control can go from address pc as long as no SetSpan has been
\* executed: nowhere after a SetSpan, to the target of a jump or call, to
\* the instruction after any call from a Return, to pc + 1 otherwise
SpanlessSucc(code, pc) ==
    LET ins == code[pc + 1]
        to == CASE ins.op = "SetSpan" -> {}
                [] ins.op = "Jump" -> {ins.a}
                [] ins.op = "JumpIfNot" -> {ins.a, pc + 1}
                [] ins.op = "Call" -> {ins.a}
                [] ins.op = "Return" ->
                      {q : q \in {q \in 1..Len(code) : code[q].op = "Call"}}
                [] OTHER -> {pc + 1}
    IN  {a \in to : a < Len(code)}

\* the addresses some path from address 0 reaches before any SetSpan
RECURSIVE Spanless(_, _, _)
Spanless(code, seen, frontier) ==
    IF frontier = {} THEN seen
    ELSE LET more == UNION {SpanlessSucc(code, pc) : pc \in frontier}
         IN  Spanless(code, seen \cup frontier, more \ (seen \cup frontier))

SpanlessFromStart(code) ==
    IF Len(code) = 0 THEN {} ELSE Spanless(code, {}, {0})

VMErrors ==
    {"InvalidSymbol", "StackUnderflow", "NoScope", "EmptyDefinition",
     "UnexpectedType", "NoCaller", "NoArray"}

\* C15: no instruction that can raise a runtime error is reached from
\* address 0 (through jumps, calls and returns) before a SetSpan has been
\* executed, and the VM has a current span whenever it raises an error.
C15_SpanCoverage ==
    /\ \A pc \in SpanlessFromStart(compiler.instructions) :
          ~CanRaise(compiler.instructions[pc + 1])
    /\ vm.status \in VMErrors => vm.current_span_id \in 0..(Len(compiler.spans) - 1)

\* an error raised inside a procedure that was reached by a call: the
\* current span is the one set before the failing instruction
C15_Witness ==
    /\ vm.status \in VMErrors /\ vm.call_stack # <<>>
    /\ vm.pc > 0 /\ compiler.instructions[vm.pc].op = "SetSpan"
    /\ compiler.instructions[vm.pc].a = vm.current_span_id
    /\ Cardinality(SpanlessFromStart(compiler.instructions)) >= 2

(***************************************************************************)
(* The parser (src/src/parser.rs).  parser is the Parser together with the *)
(* activations of its parse_* functions: lexer is the rest of the token    *)
(* stream, frames the blocks whose body loop is running (innermost last),  *)
(* exprs the vector built by parse.  input and matches are history: the    *)
(* whole token stream, and for every block closed so far the positions of  *)
(* the token that opened it and of the end that closed it; ident is        *)
(* history too: the token is_valid_identifier was asked about last, the    *)
(* answer, and the number of tokens asked about.  A token value is a       *)
(* string; a span is a line and a column.                                  *)
(***************************************************************************)
\* number of items (an opener with its identifier, else, a leaf, end) in a
\* generated token stream
MaxItems == 4
\* number of characters of a generated identifier candidate
MaxIdent == 2

Span(line, col) == [line |-> line, col |-> col]
NoSpan == Span(0, 0)
Token(value, kind, span) == [value |-> value, kind |-> kind, span |-> span]

\* str::chars
chars(s) == [i \in 1..Len(s) |-> SubSeq(s, i, i)]

AsciiDigits == {"0", "1", "2", "3", "4", "5", "6", "7", "8", "9"}
AsciiLetters ==
    {"a", "b", "c", "d", "e", "f", "g", "h", "i", "j", "k", "l", "m", "n",
     "o", "p", "q", "r", "s", "t", "u", "v", "w", "x", "y", "z", "A", "B",
     "X", "Z"}
\* char::is_alphanumeric on the characters of the model ("é": a letter
\* outside ASCII)
is_alphanumeric(c) == c \in AsciiLetters \cup AsciiDigits \cup {"é"}

is_op(value) ==
    value \in {"dup", "drop", "swap", "over", "rot", "trace", "+", "-", "*",
               "/", ">", "<", "=", ">=", "<=", "!=", ">>", "<<", "|", "&",
               "~", "**", "?"}

is_reserved_word(value) ==
    value \in {"if", "as", "loop", "proc", "end", "let", "else", "def",
               "return", "continue", "break", "true", "false", "nil",
               "array", "import"}

is_valid_identifier(value) ==
    LET cs == chars(value)
    IN  /\ ~(Len(cs) > 0 /\ cs[1] \in AsciiDigits)
        /\ \A i \in 1..Len(cs) : is_alphanumeric(cs[i]) \/ cs[i] = "_"
        /\ ~is_reserved_word(value)
        /\ ~is_op(value)

\* the word of each operator and the OpKind parse_expr makes of it
OpKindOf(value) ==
    CASE value = "+" -> "Add" [] value = "-" -> "Sub" [] value = "*" -> "Mul"
      [] value = "/" -> "Div" [] value = "%" -> "Mod" [] value = "**" -> "Exp"
      [] value = "=" -> "Eq" [] value = "!=" -> "Ne" [] value = ">" -> "Gt"
      [] value = "<" -> "Lt" [] value = "<=" -> "Le" [] value = ">=" -> "Ge"
      [] value = "|" -> "Bor" [] value = "&" -> "Band" [] value = ">>" -> "Shr"
      [] value = "<<" -> "Shl" [] value = "~" -> "BNot" [] value = "dup" -> "Dup"
      [] value = "drop" -> "Drop" [] value = "swap" -> "Swap"
      [] value = "over" -> "Over" [] value = "rot" -> "Rot"
      [] value = "trace" -> "Trace" [] value = "break" -> "Break"
      [] value = "continue" -> "Continue" [] value = "return" -> "Return"
      [] value = "true" -> "True" [] value = "false" -> "False"
      [] value = "nil" -> "Nil" [] value = "?" -> "IsNil"
      [] value = "@" -> "SeqIndex" [] value = "!" -> "SeqAssignAtIndex"
      [] OTHER -> ""

DigitVal(c) ==
    CASE c = "0" -> 0 [] c = "1" -> 1 [] c = "2" -> 2 [] c = "3" -> 3
      [] c = "4" -> 4 [] c = "5" -> 5 [] c = "6" -> 6 [] c = "7" -> 7
      [] c = "8" -> 8 [] c = "9" -> 9 [] OTHER -> 0

RECURSIVE DigitsVal(_)
DigitsVal(cs) ==
    IF cs = <<>> THEN 0
    ELSE 10 * DigitsVal(SubSeq(cs, 1, Len(cs) - 1)) + DigitVal(cs[Len(cs)])

\* str::parse::<i64>: an optional sign, then digits only, at least one, and
\* a value an i64 holds
parse_int(value) ==
    LET cs == chars(value)
        signed == Len(cs) > 0 /\ cs[1] \in {"-", "+"}
        ds == IF signed THEN Tail(cs) ELSE cs
        n == IF signed /\ cs[1] = "-" THEN 0 - DigitsVal(ds) ELSE DigitsVal(ds)
    IN  [ok |-> /\ Len(ds) > 0 /\ \A i \in 1..Len(ds) : ds[i] \in AsciiDigits
                /\ InRange(n),
         v |-> n]

RECURSIVE Pow10(_)
Pow10(k) == IF k = 0 THEN 1 ELSE 10 * Pow10(k - 1)

\* str::parse::<f64> on the texts the lexer makes (digits, `.`, a leading
\* sign): at most one point and at least one digit; the value is n / d
parse_float(value) ==
    LET cs == chars(value)
        signed == Len(cs) > 0 /\ cs[1] \in {"-", "+"}
        body == IF signed THEN Tail(cs) ELSE cs
        points == {i \in 1..Len(body) : body[i] = "."}
        ds == SelectSeq(body, LAMBDA c : c # ".")
        frac == IF points = {} THEN 0
                ELSE Len(body) - (CHOOSE i \in points : TRUE)
        n == IF signed /\ cs[1] = "-" THEN 0 - DigitsVal(ds) ELSE DigitsVal(ds)
    IN  [ok |-> /\ Cardinality(points) <= 1 /\ Len(ds) > 0
                /\ \A i \in 1..Len(ds) : ds[i] \in AsciiDigits,
         n |-> n, d |-> Pow10(frac)]

\* a node with its span; den is the denominator of a float literal
At(n, span, den) ==
    [k |-> n.k, name |-> n.name, v |-> n.v, vars |-> n.vars, b |-> n.b,
     e |-> n.e, span |-> span, den |-> den]

ParseError(kind, span, got, expected) ==
    [kind |-> kind, span |-> span, got |-> got, expected |-> expected]
NoParseError == ParseError("", NoSpan, "", "")

\* Parser::new
ParserNew(tokens, filename) ==
    [filename |-> filename, lexer |-> tokens, current_span |-> NoSpan,
     frames |-> <<>>, exprs |-> <<>>, result |-> "parsing",
     error |-> NoParseError, input |-> tokens, matches |-> <<>>,
     ident |-> [token |-> Token("", "", NoSpan), accepted |-> FALSE, n |-> 0]]

\* an activation of parse_proc, parse_def, parse_for, parse_if (kind "if",
\* and "else" once in the else loop), parse_loop, parse_array or parse_aslet
\* (kind "as" in the loop over the variables, "as..let" in the body loop):
\* span is the span the function has kept, open the position of the opener
BlockFrame(kind, name, span, open) ==
    [kind |-> kind, name |-> name, span |-> span, open |-> open,
     variables |-> <<>>, then_body |-> <<>>, body |-> <<>>]

\* self.lexer.next()
Taken(p) == [p EXCEPT !.lexer = Tail(@)]
\* ... of a token that has to be an identifier
TakenName(p) ==
    [p EXCEPT !.lexer = Tail(@),
              !.ident = [token |-> Head(p.lexer),
                         accepted |-> is_valid_identifier(Head(p.lexer).value),
                         n |-> @.n + 1]]
\* the position in the stream of the token taken last
Position(p) == Len(p.input) - Len(p.lexer)

ParseFail(p, error) == [p EXCEPT !.result = "Err", !.error = error]
\* unwrap on a literal that does not parse
ParsePanic(p) == [p EXCEPT !.result = "panic"]

\* body.push / exprs.push of the node an activation has returned
Deliver(p, node) ==
    IF p.frames = <<>> THEN [p EXCEPT !.exprs = Append(@, node)]
    ELSE [p EXCEPT !.frames[Len(p.frames)].body = Append(@, node)]

\* the test of a block marker without the test of the kind of the token
\* (what the code does not do)
IsWord_AnyKind(token, text) == token.value = text

\* `Token { value: x, kind: TokenKind::Word, .. }` with x == text
IsWord(token, text) == token.kind = "Word" /\ token.value = text

\* the start of parse_proc, parse_def and parse_for: the identifier
OpenNamed(p, kind) ==
    IF p.lexer = <<>>
    THEN ParseFail(p, ParseError("UnexpectedEOF", p.current_span, "",
                                 "valid identifier"))
    ELSE LET name == Head(p.lexer)
             open == Position(p)
             p1 == TakenName(p)
         IN  IF ~is_valid_identifier(name.value)
             THEN ParseFail(p1, ParseError("UnexpectedToken", name.span,
                                           name.value, "valid identifier"))
             ELSE [p1 EXCEPT !.frames = Append(@,
                       BlockFrame(kind, name.value, name.span, open))]

parse_let(p) ==
    IF p.lexer = <<>>
    THEN ParseFail(p, ParseError("UnexpectedEOF", p.current_span, "",
                                 "valid identifier"))
    ELSE LET variable == Head(p.lexer)
             p1 == TakenName(p)
         IN  IF ~is_valid_identifier(variable.value)
             THEN ParseFail(p1, ParseError("UnexpectedToken", variable.span,
                                           variable.value, "valid identifier"))
             ELSE Deliver(p1, At(Let(variable.value), variable.span, 1))

parse_import(p) ==
    IF p.lexer = <<>>
    THEN ParseFail(p, ParseError("UnexpectedEOF", p.current_span, "",
                                 "valid identifier"))
    ELSE LET path_token == Head(p.lexer)
             p1 == Taken(p)
         IN  IF path_token.kind # "String"
             THEN ParseFail(p1, ParseError("UnexpectedToken", path_token.span,
                                           path_token.value, "string"))
             ELSE Deliver(p1, At(Import(path_token.value), path_token.span, 1))

\* the "end" arm of parse_expr, with an arm that takes the word for a symbol
\* (what the code does not do) before it
UnmatchedEnd_Symbol(p, token) == Deliver(p, At(Symbol(token.value), token.span, 1))

UnmatchedEnd(p, token) ==
    ParseFail(p, ParseError("UnmatchedBlock", p.current_span, "", ""))

\* parse_expr on a token that has been taken
parse_expr(p, token) ==
    CASE token.kind = "Int" ->
            LET r == parse_int(token.value)
            IN  IF r.ok THEN Deliver(p, At(IntLit(r.v), token.span, 1))
                ELSE ParsePanic(p)
      [] token.kind = "Float" ->
            LET r == parse_float(token.value)
            IN  IF r.ok THEN Deliver(p, At(FloatLit(r.n), token.span, r.d))
                ELSE ParsePanic(p)
      [] token.kind = "String" ->
            Deliver(p, At(StringLit(token.value), token.span, 1))
      [] OTHER ->
            CASE token.value \in {"proc", "def", "for"} ->
                    OpenNamed(p, token.value)
              [] token.value = "let" -> parse_let(p)
              [] token.value \in {"as", "if", "loop", "array"} ->
                    [p EXCEPT !.frames = Append(@,
                        BlockFrame(token.value, "", token.span, Position(p)))]
              [] token.value = "import" -> parse_import(p)
              [] token.value = "end" -> UnmatchedEnd(p, token)
              [] OpKindOf(token.value) # "" ->
                    Deliver(p, At(Operation(OpKindOf(token.value)), token.span, 1))
              [] OTHER -> Deliver(p, At(Symbol(token.value), token.span, 1))

\* the return of an activation at its `end`
CloseBlock(p, token) ==
    LET f == p.frames[Len(p.frames)]
        node == CASE f.kind = "proc" -> At(Proc(f.name, f.body), f.span, 1)
                  [] f.kind = "def" -> At(Def(f.name, f.body), f.span, 1)
                  [] f.kind = "for" -> At(For(f.name, f.body), token.span, 1)
                  [] f.kind = "if" -> At(If(f.body), token.span, 1)
                  [] f.kind = "else" ->
                        At(IfElse(f.then_body, f.body), token.span, 1)
                  [] f.kind = "loop" -> At(Loop(f.body), token.span, 1)
                  [] f.kind = "array" -> At(Array(f.body), token.span, 1)
                  [] OTHER -> At(AsLet(f.variables, f.body), token.span, 1)
        p1 == [p EXCEPT !.frames = SubSeq(@, 1, Len(@) - 1),
                        !.matches = Append(@, [open |-> f.open,
                                               close |-> Position(p),
                                               kind |-> f.kind])]
    IN  Deliver(p1, node)

\* the end of the token stream inside an activation
Unterminated(p) ==
    LET f == p.frames[Len(p.frames)]
    IN  ParseFail(p,
            CASE f.kind = "proc" -> ParseError("UnterminatedBlock", f.span, "", "proc")
              [] f.kind = "def" -> ParseError("UnterminatedBlock", f.span, "", "proc")
              [] f.kind = "else" -> ParseError("UnterminatedBlock", f.span, "", "else")
              [] f.kind \in {"as", "as..let"} ->
                    ParseError("UnterminatedBlock", p.current_span, "", "as..let")
              [] OTHER -> ParseError("UnterminatedBlock", p.current_span, "", f.kind))

\* one turn of the loop that is running: the loop of parse when no block is
\* open, the loop of the innermost activation otherwise
ParseStep(p) ==
    IF p.frames = <<>>
    THEN IF p.lexer = <<>> THEN [p EXCEPT !.result = "Ok"]
         ELSE LET token == Head(p.lexer)
              IN  parse_expr([Taken(p) EXCEPT !.current_span = token.span], token)
    ELSE IF p.lexer = <<>> THEN Unterminated(p)
    ELSE LET token == Head(p.lexer)
             top == Len(p.frames)
             f == p.frames[top]
             p1 == Taken(p)
         IN  CASE f.kind = "as" ->
                    IF IsWord(token, "let")
                    THEN [p1 EXCEPT !.frames[top].kind = "as..let"]
                    ELSE IF ~is_valid_identifier(token.value)
                    THEN ParseFail(TakenName(p),
                                   ParseError("UnexpectedToken", token.span,
                                        token.value, "valid identifier"))
                    ELSE [TakenName(p) EXCEPT !.frames[top].variables =
                                                  Append(@, token.value)]
               [] f.kind = "if" /\ IsWord(token, "else") ->
                    [p1 EXCEPT !.frames[top].kind = "else",
                               !.frames[top].then_body = f.body,
                               !.frames[top].body = <<>>,
                               !.frames[top].span = token.span]
               [] f.kind # "as" /\ IsWord(token, "end") -> CloseBlock(p1, token)
               [] OTHER -> parse_expr(p1, token)

(***************************************************************************)
(* Token streams for SpecParse.  The tokens are ones the lexer makes: a    *)
(* Word is not empty and does not start like a number, a String holds any  *)
(* text, the empty one included.  The span of a token is its position.     *)
(***************************************************************************)
W(value) == [value |-> value, kind |-> "Word"]
S(value) == [value |-> value, kind |-> "String"]
I(value) == [value |-> value, kind |-> "Int"]
Fl(value) == [value |-> value, kind |-> "Float"]
Spanned(ts) == [i \in 1..Len(ts) |-> Token(ts[i].value, ts[i].kind, Span(1, i))]

\* the block openers with their identifiers, else, a leaf and end
NamedOpeners == {<<W("proc"), W("x")>>, <<W("def"), W("x")>>, <<W("for"), W("i")>>}
PlainOpeners == {<<W("if")>>, <<W("loop")>>, <<W("array")>>,
                 <<W("as"), W("a"), W("let")>>}
BlockItems ==
    NamedOpeners \cup PlainOpeners \cup {<<W("else")>>, <<I("1")>>, <<W("end")>>}

RECURSIVE ItemSeqs(_)
ItemSeqs(n) ==
    IF n = 0 THEN {<<>>}
    ELSE LET shorter == ItemSeqs(n - 1)
         IN  shorter \cup {s \o it : s \in shorter, it \in BlockItems}

BlockInputs == {Spanned(ts) : ts \in ItemSeqs(MaxItems)}

\* candidates for an identifier: every text of up to MaxIdent characters,
\* the keywords and some operator words
IdentChars == {"a", "1", "_", "-", "é"}
RECURSIVE Texts(_)
Texts(n) ==
    IF n = 0 THEN {""}
    ELSE LET shorter == Texts(n - 1)
         IN  shorter \cup {s \o c : s \in shorter, c \in IdentChars}

Keywords ==
    {"proc", "def", "let", "as", "if", "loop", "array", "for", "import",
     "end", "else", "break", "continue", "return", "true", "false", "nil"}
OperatorWords ==
    {"dup", "drop", "swap", "over", "rot", "trace", "+", "-", "*", "/", "%",
     "**", "=", "!=", ">", "<", "<=", ">=", "|", "&", ">>", "<<", "~", "?",
     "@", "!"}

IdentTexts == Texts(MaxIdent) \cup Keywords \cup {"dup", "+", "trace", "@", "x1"}

\* the lexer makes a Word of a text that starts with none of a digit, a
\* sign before a digit, a quote, `'` and `#`
WordText(s) ==
    /\ Len(s) > 0 /\ SubSeq(s, 1, 1) \notin AsciiDigits
    /\ ~(Len(s) > 1 /\ SubSeq(s, 1, 1) = "-" /\ SubSeq(s, 2, 2) \in AsciiDigits)
    /\ SubSeq(s, 1, 1) # "é"
IntText(s) ==
    /\ Len(s) > 0
    /\ \A i \in 1..Len(s) :
          SubSeq(s, i, i) \in AsciiDigits \/ (i = 1 /\ Len(s) > 1 /\ SubSeq(s, i, i) = "-")

Candidates ==
    {S(s) : s \in IdentTexts} \cup {W(s) : s \in {s \in IdentTexts : WordText(s)}}
    \cup {I(s) : s \in {s \in IdentTexts : IntText(s)}}

IdentInputs ==
    {Spanned(ts) : ts \in UNION {
        {<<W("proc"), c, W("end")>>, <<W("def"), c, I("1"), W("end")>>,
         <<W("let"), c>>, <<W("for"), c, W("end")>>,
         <<W("as"), c, W("let"), W("end")>>,
         <<W("as"), W("a"), c, W("let"), W("end")>>} : c \in Candidates}}

\* strings that read like the block markers, in the body of every block
MarkerTexts == {"end", "else", "let"}
MarkerInputs ==
    {Spanned(ts) : ts \in UNION {
        {o \o <<S(s), W("end")>>, o \o <<S(s)>>, o \o <<I("1"), S(s), W("end")>>,
         <<W("if"), S(s), W("else"), S(s), W("end")>>,
         <<W("as"), W("a"), S(s), W("let"), W("end")>>,
         <<S(s), W("end")>>} :
        o \in NamedOpeners \cup PlainOpeners, s \in MarkerTexts}}

ParseScenarios ==
    {Spanned(ts) : ts \in
       {<<W("import"), S("lib.pile"), W("h")>>, <<W("import"), W("lib")>>,
        <<W("import")>>, <<W("proc")>>, <<W("let")>>, <<W("def")>>,
        <<I("1"), I("-5"), W("+"), W("println")>>, <<I("300")>>,
        <<Fl("1.5"), Fl("-.5"), Fl("2."), W("*")>>, <<Fl("1.2.3")>>,
        <<Fl("-.")>>, <<W("if"), W("else"), W("else"), W("end")>>,
        <<W("1"), W("x"), W("!"), W("@"), W("?"), W("true")>>}}

ParseInputs == BlockInputs \cup IdentInputs \cup MarkerInputs \cup ParseScenarios

(***************************************************************************)
(* SpecParse: Parser::parse on a token stream, one turn of a loop a step.  *)
(***************************************************************************)
InitParse ==
    /\ \E tokens \in ParseInputs : parser = ParserNew(tokens, "main.pile")
    /\ program = <<>> /\ compiler = CompilerNew /\ vm = Fail(VMNew, "idle")
    /\ obs = <<>> /\ rt = <<>> /\ hist = <<>> /\ lexer = <<>>

KeepParse == UNCHANGED <<program, compiler, vm, obs, rt, hist, lexer>>

Parsing == parser.result = "parsing"
InBlock == Parsing /\ parser.frames # <<>> /\ parser.lexer # <<>>
TopBlock == parser.frames[Len(parser.frames)]
\* a token in the place of an expression
ExprToken ==
    /\ Parsing /\ parser.lexer # <<>>
    /\ parser.frames # <<>> =>
          /\ TopBlock.kind # "as"
          /\ ~IsWord(Head(parser.lexer), "end")
          /\ ~(TopBlock.kind = "if" /\ IsWord(Head(parser.lexer), "else"))
ExprWord(values) ==
    ExprToken /\ Head(parser.lexer).kind = "Word" /\ Head(parser.lexer).value \in values
Stepped == parser' = ParseStep(parser) /\ KeepParse

\* parse returns Ok(exprs)
ParseDone == Parsing /\ parser.frames = <<>> /\ parser.lexer = <<>> /\ Stepped
\* the stream ends inside a block
ParseUnterminated == Parsing /\ parser.frames # <<>> /\ parser.lexer = <<>> /\ Stepped
\* a token of the variable list of as..let, the closing let included
ParseVariable == InBlock /\ TopBlock.kind = "as" /\ Stepped
ParseElse ==
    InBlock /\ TopBlock.kind = "if" /\ IsWord(Head(parser.lexer), "else") /\ Stepped
ParseEnd ==
    InBlock /\ TopBlock.kind # "as" /\ IsWord(Head(parser.lexer), "end") /\ Stepped
ParseUnmatched == ExprWord({"end"}) /\ Stepped
ParseOpen == ExprWord({"proc", "def", "for"}) /\ Stepped
ParseBlock == ExprWord({"as", "if", "loop", "array"}) /\ Stepped
ParseLet == ExprWord({"let"}) /\ Stepped
ParseImport == ExprWord({"import"}) /\ Stepped
ParseLiteral == ExprToken /\ Head(parser.lexer).kind # "Word" /\ Stepped
ParseOperation ==
    /\ ExprToken /\ Head(parser.lexer).kind = "Word"
    /\ OpKindOf(Head(parser.lexer).value) # "" /\ Stepped
ParseSymbol ==
    /\ ExprToken /\ Head(parser.lexer).kind = "Word"
    /\ OpKindOf(Head(parser.lexer).value) = ""
    /\ Head(parser.lexer).value \notin
          {"proc", "def", "for", "let", "as", "if", "loop", "array", "import", "end"}
    /\ Stepped

NextParse ==
    \/ ParseDone \/ ParseUnterminated \/ ParseVariable \/ ParseElse
    \/ ParseEnd \/ ParseUnmatched \/ ParseOpen \/ ParseBlock \/ ParseLet
    \/ ParseImport \/ ParseLiteral \/ ParseOperation \/ ParseSymbol

SpecParse == InitParse /\ [][NextParse]_vars

(***************************************************************************)
(* Claims about the parser (SpecParse).                                    *)
(***************************************************************************)
IsEnd(t) == t.kind = "Word" /\ t.value = "end"
IsOpener(t) ==
    t.kind = "Word" /\ t.value \in {"proc", "def", "for", "if", "loop", "array", "as"}

\* openers minus ends among the first n tokens
OpenAfter(tokens, n) ==
    Cardinality({i \in 1..n : IsOpener(tokens[i])})
    - Cardinality({i \in 1..n : IsEnd(tokens[i])})

\* the position of the first end that has no open block to close, or 0
FirstUnmatched(tokens) ==
    LET bad == {i \in 1..Len(tokens) : OpenAfter(tokens, i) < 0}
    IN  IF bad = {} THEN 0 ELSE CHOOSE i \in bad : \A j \in bad : i <= j

\* the opener of the innermost block open at position close
Partner(tokens, close) ==
    LET before == {j \in 1..(close - 1) :
                      /\ IsOpener(tokens[j])
                      /\ OpenAfter(tokens, j - 1) = OpenAfter(tokens, close)}
    IN  IF before = {} THEN 0 ELSE CHOOSE j \in before : \A i \in before : i <= j

\* C16: on a stream of block openers with their identifiers, else, leaves
\* and end, every end closes the innermost open block, and parse returns
\* UnmatchedBlock at the first end with no open block, else
\* UnterminatedBlock when a block is open at the end of the stream, else Ok.
C16_BlockMatching ==
    parser.input \in BlockInputs
    => /\ \A i \in 1..Len(parser.matches) :
             /\ IsEnd(parser.input[parser.matches[i].close])
             /\ parser.matches[i].open
                   = Partner(parser.input, parser.matches[i].close)
       /\ ~Parsing =>
             LET tokens == parser.input
                 bad == FirstUnmatched(tokens)
             IN  IF bad # 0
                 THEN /\ parser.result = "Err"
                      /\ parser.error.kind = "UnmatchedBlock"
                      /\ Position(parser) = bad
                 ELSE IF OpenAfter(tokens, Len(tokens)) > 0
                 THEN /\ parser.result = "Err"
                      /\ parser.error.kind = "UnterminatedBlock"
                      /\ parser.lexer = <<>>
                 ELSE /\ parser.result = "Ok"
                      /\ Len(parser.matches)
                            = Cardinality({i \in 1..Len(tokens) : IsOpener(tokens[i])})

\* a stream with a block inside a named block has been parsed to Ok
C16_Witness ==
    /\ parser.input \in BlockInputs /\ parser.result = "Ok"
    /\ \E i, j \in 1..Len(parser.matches) :
          /\ parser.matches[i].open > parser.matches[j].open
          /\ parser.matches[i].close < parser.matches[j].close
          /\ parser.matches[j].kind = "proc"

\* an identifier as the language defines it
IsIdentifier(text) ==
    /\ Len(text) > 0
    /\ SubSeq(text, 1, 1) \notin AsciiDigits
    /\ \A i \in 1..Len(text) :
          is_alphanumeric(SubSeq(text, i, i)) \/ SubSeq(text, i, i) = "_"
    /\ text \notin Keywords /\ text \notin OperatorWords

\* C17: a token in the place of an identifier (after proc, def, let, for
\* and in the variable list of as..let) is accepted exactly when its text
\* is an identifier: not empty, no digit first, alphanumerics and `_` only,
\* no keyword and no operator word; any other is UnexpectedToken.
C17_IdentifierValidity ==
    parser.ident.n > 0
    => /\ parser.ident.accepted <=> IsIdentifier(parser.ident.token.value)
       /\ ~IsIdentifier(parser.ident.token.value)
             => /\ parser.result = "Err"
                /\ parser.error = ParseError("UnexpectedToken",
                       parser.ident.token.span, parser.ident.token.value,
                       "valid identifier")

\* C18: the kind of an UnterminatedBlock error is the keyword that opened
\* the innermost block left open at the end of the stream (as..let for as).
C18_UnterminatedNamesOpener ==
    (parser.result = "Err" /\ parser.error.kind = "UnterminatedBlock")
    => /\ parser.frames # <<>> /\ parser.lexer = <<>>
       /\ LET opener == parser.input[TopBlock.open].value
          IN  parser.error.expected
                 = (IF opener = "as" THEN "as..let" ELSE opener)

\* a String token with the text of a block marker is next in the body of
\* a block
MarkerStringNext ==
    /\ Parsing /\ parser.frames # <<>> /\ parser.lexer # <<>>
    /\ TopBlock.kind # "as"
    /\ Head(parser.lexer).kind = "String"
    /\ Head(parser.lexer).value \in MarkerTexts

MaxChars == 5

Quote == "\""
Backslash == "\\"
\* the character '\0' (a string cannot hold it: the form feed stands for it)
Nul == "\f"

\* escape_char: the character after a backslash; "" stands for None
escape_char(c) ==
    CASE c = "n" -> "\n" [] c = "r" -> "\r" [] c = "t" -> "\t"
      [] c = Quote -> Quote [] c = "0" -> Nul [] OTHER -> ""

is_ascii(c) == c # "é"
is_int(c) == c \in AsciiDigits
is_float(c) == c \in AsciiDigits \cup {"."}
is_whitespace(c) == c \in {" ", "\t", "\r", "\n"}
is_int_start(c, rest) ==
    is_int(c) \/ (c = "-" /\ rest # <<>> /\ is_int(rest[1]))
is_float_start(c, rest) ==
    is_int(c) \/ (c = "-" /\ rest # <<>> /\ is_float(rest[1]))

\* char::len_utf8 and `c as i64` on the characters of the model
len_utf8(c) == IF c = "é" THEN 2 ELSE 1
CodePoint(c) ==
    CASE c = Nul -> 0 [] c = "\t" -> 9 [] c = "\n" -> 10 [] c = "\r" -> 13
      [] c = " " -> 32 [] c = Quote -> 34 [] c = "#" -> 35 [] c = "'" -> 39
      [] c = "-" -> 45 [] c = "." -> 46 [] c = "0" -> 48 [] c = "1" -> 49
      [] c = Backslash -> 92 [] c = "a" -> 97 [] c = "n" -> 110
      [] c = "é" -> 233 [] OTHER -> 120

\* i64::to_string of a number that is not negative
RECURSIVE to_string(_)
to_string(n) ==
    LET digit == SubSeq("0123456789", (n % 10) + 1, (n % 10) + 1)
    IN  IF n < 10 THEN digit ELSE to_string(n \div 10) \o digit

\* Lexer::new on the characters of a file
LexerNew(content, name) ==
    [name |-> name, content |-> content, span |-> Span(1, 1),
     tokens |-> <<>>, status |-> "lexing", message |-> "", input |-> content,
     last |-> "", quote |-> 0, first |-> 0, firsts |-> <<>>, afters |-> <<>>]

\* return Some(token), return None, throw
Return(l, token) ==
    [l EXCEPT !.tokens = Append(@, token), !.last = "token",
              !.firsts = Append(@, l.first),
              !.afters = Append(@, Len(l.input) - Len(l.content))]
ReturnNone(l) == [l EXCEPT !.status = "end", !.last = "none"]
Throw(l, message) == [l EXCEPT !.status = "throw", !.message = message, !.last = "throw"]

\* the loop of the comment arm: to the end of the line
RECURSIVE SkipComment(_)
SkipComment(l) ==
    IF l.content = <<>> THEN l
    ELSE IF Head(l.content) = "\n"
    THEN [l EXCEPT !.content = Tail(@), !.span = Span(l.span.line + 1, 1)]
    ELSE SkipComment([l EXCEPT !.content = Tail(@)])

\* the loop of the string arm
RECURSIVE LexString(_, _, _, _)
LexString(l, col, buffer, len) ==
    IF l.content = <<>>
    THEN Return([l EXCEPT !.span.col = @ + len + 2],
                Token(buffer, "String", Span(l.span.line, col)))
    ELSE LET d == Head(l.content)
             rest == Tail(l.content)
         IN  IF d = Quote
             THEN Return([l EXCEPT !.content = rest, !.span.col = @ + len + 2],
                         Token(buffer, "String", Span(l.span.line, col)))
             ELSE IF rest = <<>>
             THEN Throw([l EXCEPT !.content = rest],
                        "expected closing quotation mark")
             ELSE IF d = Backslash
             THEN IF escape_char(rest[1]) # ""
                  THEN LexString([l EXCEPT !.content = Tail(rest)], col,
                                 buffer \o escape_char(rest[1]),
                                 len + len_utf8(escape_char(rest[1])))
                  ELSE Throw([l EXCEPT !.content = Tail(rest)],
                             "invalid escape character")
             ELSE LexString([l EXCEPT !.content = rest], col, buffer \o d,
                            len + len_utf8(d))

\* the char arm, after the `'`: Some token, or nothing at the end of the file
LexChar(l) ==
    IF l.content = <<>> THEN l
    ELSE LET chr == Head(l.content)
             rest == Tail(l.content)
             l1 == [l EXCEPT !.content = rest]
             int(c, lx) == Return(lx, Token(to_string(CodePoint(c)), "Int", l.span))
         IN  IF chr = Backslash /\ rest # <<>>
             THEN LET esc == rest[1]
                      l2 == [l EXCEPT !.content = Tail(rest)]
                  IN  IF escape_char(esc) # "" THEN int(escape_char(esc), l2)
                      ELSE IF ~is_whitespace(esc) THEN int(esc, l2)
                      ELSE int(chr, l2)
             ELSE int(chr, l1)

\* the loop of the int arm
RECURSIVE LexNumber(_, _, _, _)
LexNumber(l, col, buffer, float) ==
    LET done == Return([l EXCEPT !.span.col = @ + Len(buffer)],
                       Token(buffer, IF float THEN "Float" ELSE "Int",
                             Span(l.span.line, col)))
    IN  IF l.content = <<>> THEN done
        ELSE LET d == Head(l.content)
             IN  IF ~is_float(d)
                 THEN IF ~is_whitespace(d)
                      THEN Throw(l, "invalid character in integer/float literal")
                      ELSE done
                 ELSE LexNumber([l EXCEPT !.content = Tail(@)], col,
                                buffer \o d, float \/ ~is_int(d))

\* the loop of the float arm
RECURSIVE LexFloat(_, _, _)
LexFloat(l, col, buffer) ==
    LET done == Return([l EXCEPT !.span.col = @ + Len(buffer)],
                       Token(buffer, "Float", Span(l.span.line, col)))
    IN  IF l.content = <<>> THEN done
        ELSE LET d == Head(l.content)
             IN  IF ~is_float(d)
                 THEN IF ~is_whitespace(d)
                      THEN Throw(l, "invalid character in float literal")
                      ELSE done
                 ELSE LexFloat([l EXCEPT !.content = Tail(@)], col, buffer \o d)

\* the loop of the word arm; len is buffer.len(), in bytes
RECURSIVE LexWord(_, _, _, _)
LexWord(l, col, buffer, len) ==
    IF l.content = <<>> \/ is_whitespace(Head(l.content))
    THEN Return([l EXCEPT !.span.col = @ + len],
                Token(buffer, "Word", Span(l.span.line, col)))
    ELSE LexWord([l EXCEPT !.content = Tail(@)], col,
                 buffer \o Head(l.content), len + len_utf8(Head(l.content)))

\* the loop of Lexer::next
RECURSIVE Scan(_)
Scan(l) ==
    IF l.content = <<>> THEN ReturnNone(l)
    ELSE LET c == Head(l.content)
             rest == Tail(l.content)
             l1 == [l EXCEPT !.content = rest,
                             !.first = Len(l.input) - Len(rest)]
         IN  CASE c = "\n" -> Scan([l1 EXCEPT !.span = Span(l.span.line + 1, 1)])
               [] is_whitespace(c) /\ c # "\n" ->
                     Scan([l1 EXCEPT !.span.col = @ + 1])
               [] c = "#" -> Scan(SkipComment(l1))
               [] c = Quote ->
                     LexString([l1 EXCEPT !.quote = Len(l.input) - Len(rest)],
                               l.span.col, "", 0)
               [] c = "'" ->
                     IF rest = <<>> THEN Scan(l1) ELSE LexChar(l1)
               [] c \notin {"\n", "#", Quote, "'"} /\ ~is_whitespace(c)
                  /\ is_int_start(c, rest) ->
                     LexNumber(l1, l.span.col, c, FALSE)
               [] c \notin {"\n", "#", Quote, "'"} /\ ~is_whitespace(c)
                  /\ ~is_int_start(c, rest) /\ is_float_start(c, rest) ->
                     LexFloat(l1, l.span.col, c)
               [] c \notin {"\n", "#", Quote, "'"} /\ ~is_whitespace(c)
                  /\ ~is_int_start(c, rest) /\ ~is_float_start(c, rest)
                  /\ is_ascii(c) ->
                     LexWord(l1, l.span.col, c, 1)
               [] OTHER -> Throw(l1, "illegal character")

\* Lexer::next
next(l) == Scan([l EXCEPT !.quote = 0, !.last = ""])

(***************************************************************************)
(* SpecLex: the lexer on the characters of a file, a call of next() a step *)
(***************************************************************************)
LexChars == {Quote, Backslash, "a", "n", " ", "'"}
RECURSIVE CharSeqs(_)
CharSeqs(n) ==
    IF n = 0 THEN {<<>>}
    ELSE LET shorter == CharSeqs(n - 1)
         IN  shorter \cup {Append(s, c) : s \in shorter, c \in LexChars}

LexScenarios ==
    {<<"1", " ", "-", "1", ".", "0", " ", "-", ".", "1">>,
     <<"#", "a", "\n", "a", "\n", "\t", "é">>, <<"1", "a">>, <<"-", ".", "a">>,
     <<"'", "a", "'", " ", "'", "\\", "n", "'">>, <<"'", "\\", "a">>,
     <<"'", "\\", " ">>, <<"'", "\\">>, <<"'">>, <<"a", "é", "\"", " ", "é">>,
     <<"\"", "é", "\"", "a">>, <<"\"", "\\", "0", "\"">>, <<"#", "a">>,
     <<"-", " ", "-", "1">>, <<"1", ".", "2", ".", "3">>,
     <<"'", "a", "'", " ", "a">>, <<"'", "\\", "0", "'", "\n", "a">>,
     <<Quote, "\\", "n", Quote, " ", "a">>, <<Quote, "é", Quote, " ", "a">>,
     <<"é", "a">>, <<"#", "a", "\n", "'", "é", "'", " ", "1">>,
     <<"-", ".">>, <<"1", ".", " ", "-", ".", " ", "1">>, <<"1", ".", ".">>}

LexInputs == CharSeqs(MaxChars) \cup LexScenarios

InitLex ==
    /\ \E content \in LexInputs : lexer = LexerNew(content, "main.pile")
    /\ program = <<>> /\ compiler = CompilerNew /\ vm = Fail(VMNew, "idle")
    /\ obs = <<>> /\ rt = <<>> /\ hist = <<>> /\ parser = <<>>

KeepLex == UNCHANGED <<program, compiler, vm, obs, rt, hist, parser>>
Called == lexer.status = "lexing" /\ lexer' = next(lexer) /\ KeepLex

\* next() returns a token of the kind
LexTokenString == Called /\ lexer'.last = "token" /\ lexer'.quote # 0
LexTokenNumber ==
    /\ Called /\ lexer'.last = "token"
    /\ lexer'.tokens[Len(lexer'.tokens)].kind \in {"Int", "Float"}
LexTokenWord ==
    /\ Called /\ lexer'.last = "token"
    /\ lexer'.tokens[Len(lexer'.tokens)].kind = "Word"
\* next() returns None
LexEnd == Called /\ lexer'.last = "none"
\* throw: the process exits
LexThrow == Called /\ lexer'.last = "throw"

NextLex == LexTokenString \/ LexTokenNumber \/ LexTokenWord \/ LexEnd \/ LexThrow

SpecLex == InitLex /\ [][NextLex]_vars

(***************************************************************************)
(* Claims about the lexer (SpecLex).                                       *)
(***************************************************************************)
\* the position of the first quote at or after position i that no
\* backslash escapes, or 0
RECURSIVE ClosingQuote(_, _)
ClosingQuote(content, i) ==
    IF i > Len(content) THEN 0
    ELSE IF content[i] = Quote THEN i
    ELSE IF content[i] = Backslash THEN ClosingQuote(content, i + 2)
    ELSE ClosingQuote(content, i + 1)

\* C20: when next() has scanned a string literal whose opening quote is
\* followed by no unescaped quote up to the end of the file, the call ends
\* in a token error and returns no String token.
C20_UnterminatedStringIsError ==
    (lexer.quote # 0 /\ ClosingQuote(lexer.input, lexer.quote + 1) = 0)
    => /\ lexer.status = "throw" /\ lexer.last = "throw"
       /\ lexer.message \in {"expected closing quotation mark",
                             "invalid escape character"}

\* the number of characters of the character literal that begins at
\* position i of the file (0: none begins there): a quote, one character or
\* one escape of the table, a quote
CharLiteralLen(content, i) ==
    IF i + 2 > Len(content) \/ content[i] # "'" THEN 0
    ELSE IF content[i + 1] \notin {Backslash, "'"} /\ content[i + 2] = "'" THEN 3
    ELSE IF /\ i + 3 <= Len(content) /\ content[i + 1] = Backslash
            /\ content[i + 2] \in {"n", "r", "t", Quote, "0"}
            /\ content[i + 3] = "'" THEN 4
    ELSE 0

\* the character that literal denotes
CharLiteralValue(content, i) ==
    IF content[i + 1] = Backslash THEN escape_char(content[i + 2])
    ELSE content[i + 1]

\* C21: a token that next() returned for a character literal of the file is
\* an Int whose value is the code point of the character, the call that
\* returned it consumed the literal up to and including its closing quote,
\* and the token after it begins after that quote.
C21_CharLiteralIsOneToken ==
    \A i \in 1..Len(lexer.tokens) :
        LET f == lexer.firsts[i]
            k == CharLiteralLen(lexer.input, f)
        IN  k # 0 =>
              /\ lexer.tokens[i].kind = "Int"
              /\ lexer.tokens[i].value =
                     to_string(CodePoint(CharLiteralValue(lexer.input, f)))
              /\ lexer.afters[i] = f + k - 1
              /\ i < Len(lexer.tokens) => lexer.firsts[i + 1] > f + k - 1

\* the 1-based line and character column of position p of the file
LineAt(content, p) ==
    1 + Cardinality({j \in 1..(p - 1) : content[j] = "\n"})
ColumnAt(content, p) ==
    LET breaks == {j \in 1..(p - 1) : content[j] = "\n"}
        last == IF breaks = {} THEN 0
                ELSE CHOOSE j \in breaks : \A b \in breaks : b <= j
    IN  p - last

\* C22: the span of every token next() returned is the line and the
\* character column of the token's first character in the file.
C22_PreciseColumns ==
    \A i \in 1..Len(lexer.tokens) :
        lexer.tokens[i].span = Span(LineAt(lexer.input, lexer.firsts[i]),
                                    ColumnAt(lexer.input, lexer.firsts[i]))

(***************************************************************************)
(* Claims about symbols, procedures, loops and blocks in the compiler      *)
(* (checked under Spec).                                                   *)
(***************************************************************************)
SymSites == {compiler.sym_sites[i] : i \in 1..Len(compiler.sym_sites)}
ProcSites == {compiler.proc_sites[i] : i \in 1..Len(compiler.proc_sites)}
IfSites == {compiler.if_sites[i] : i \in 1..Len(compiler.if_sites)}
ContSites == {compiler.cont_sites[i] : i \in 1..Len(compiler.cont_sites)}
AsLetSites == {compiler.aslet_sites[i] : i \in 1..Len(compiler.aslet_sites)}

\* the builtin names of the table of builtins
BuiltinTable ==
    {"print", "println", "eprint", "eprintln", "input", "inputln", "exit",
     "chr", "ord", "len", "typeof", "toint", "tofloat", "tostring", "tobool",
     "open", "read", "readline", "write"}

\* the procedures of the name whose proc block begins before address a: the
\* ones in the procedure table when the instruction at a is emitted
DefinedBefore(name, a) == {p \in ProcSites : p.name = name /\ p.entry <= a}

\* the one of them defined last
LatestBefore(name, a) ==
    CHOOSE p \in DefinedBefore(name, a) :
        \A q \in DefinedBefore(name, a) : q.entry <= p.entry

\* C23: a Symbol whose name is in the table of builtins and names no
\* procedure defined before it compiles to ExecBuiltin of that name.
C23_BuiltinsCompileToExecBuiltin ==
    ~compiler.panicked =>
        \A site \in SymSites :
            (site.name \in BuiltinTable
             /\ DefinedBefore(site.name, site.addr) = {})
                => Instructions[site.addr + 1]
                       = Named("ExecBuiltin", site.name)

C28_ContinueRestartsInnermostLoop ==
    ~compiler.panicked =>
        /\ \A a \in ContSites :
               /\ LoopsAround(a) # {}
               /\ Instructions[a + 1] = Jump(InnermostLoop(a).start)
        /\ (obs.prev_pc \in ContSites /\ vm.steps > 0)
               => vm.pc = InnermostLoop(obs.prev_pc).start

\* the continue of an inner loop, inside an if, has run
C28_Witness ==
    /\ ~compiler.panicked
    /\ obs.prev_pc \in ContSites
    /\ Cardinality(LoopsAround(obs.prev_pc)) >= 2
    /\ \E f \in IfSites : f.cond < obs.prev_pc /\ obs.prev_pc < f.end
    /\ vm.pc = InnermostLoop(obs.prev_pc).start

NotSetSpan(ins) == ins.op # "SetSpan"
IsSetVariable(ins) == ins.op = "SetVariable"
IsBodyInstr(ins) ==
    ins.op \notin {"SetSpan", "SetVariable", "BeginScope", "EndScope"}

\* C29: the instructions emitted for an as..let block are, spans aside, a
\* BeginScope, an EndScope at the end, between them one SetVariable for each
\* variable in reverse order of declaration, and the instructions of the
\* body (at least one for each node of it).
C29_AsLetCompilation ==
    ~compiler.panicked =>
        \A site \in AsLetSites :
            LET code == SubSeq(Instructions, site.start + 1, site.end)
                ops == SelectSeq(code, NotSetSpan)
                sets == SelectSeq(code, IsSetVariable)
            IN  /\ ops # <<>>
                /\ ops[1] = Plain("BeginScope")
                /\ ops[Len(ops)] = Plain("EndScope")
                /\ [i \in 1..Len(sets) |-> sets[i].s] = Reverse(site.vars)
                /\ Len(SelectSeq(code, IsBodyInstr)) >= site.body

\* the Symbols that name the procedure and stand in its body
SelfCalls(p) ==
    {site \in SymSites :
        site.name = p.name /\ p.entry <= site.addr /\ site.addr < p.end}

\* the procedure of that name is defined again between the entry and a
Redefined(p, a) ==
    \E q \in ProcSites : q.name = p.name /\ p.entry < q.entry /\ q.entry <= a

LastBuiltin(name) == hist.event = "builtin" /\ hist.node.name = name
IntOnTop(snap) == snap.stack # <<>> /\ snap.stack[1].t = "int"

\* C24: when exit has run on an empty operand stack the run has ended in the
\* runtime error StackUnderflow, and not in an exit of the process by exit.
C24_ExitNeedsOperand ==
    (LastBuiltin("exit") /\ hist.pre.stack = <<>>)
        => /\ rt.status = "error"
           /\ rt.error.kind = "StackUnderflow"

\* tostring has just run on an Int; tostring and then toint have
TostringOnInt == LastBuiltin("tostring") /\ IntOnTop(hist.pre)
RoundTripDone ==
    /\ LastBuiltin("toint")
    /\ hist.prev.event = "builtin" /\ hist.prev.node.name = "tostring"
    /\ IntOnTop(hist.prev.pre)

\* the string buffer has room for the decimal text of the Int on top
HasRoom(snap) ==
    Len(snap.string_buffer) + Len(i64_to_string(snap.stack[1].v)) <= StrCapacity

ThenPart(f) == (f.cond + 1)..(f.escape - 1)
ElsePart(f) == f.else_addr..(f.end - 1)

\* the jumps of every if: to the else part (the end when there is none) and
\* from the end of the then part past the whole if
IfJumpsPlaced ==
    ~compiler.panicked =>
        \A f \in IfSites :
            /\ Instructions[f.cond + 1] = JumpIfNot(f.else_addr)
            /\ Instructions[f.escape + 1] = Jump(f.end)
            /\ f.else_addr = f.escape + 1
            /\ ~f.has_else => f.else_addr = f.end

\* the VM executes the instruction at vm.pc
Executes == vm.status = "running" /\ vm'.steps = vm.steps + 1

\* a step of the VM at an if: the conditional jump enters the then part on
\* a truthy value and the else part (or the end) on a falsy one, the jump
\* after the then part goes to the end, and a part is entered from outside
\* by the conditional jump only (or by a Call or a Return)
IfStep ==
    Executes =>
        \A f \in IfSites :
            /\ vm.pc = f.cond
                   => vm'.pc = IF Falsy(Top(vm.stack)) THEN f.else_addr
                               ELSE f.cond + 1
            /\ vm.pc = f.escape => vm'.pc = f.end
            /\ (vm'.pc \in ThenPart(f) /\ vm.pc \notin ThenPart(f))
                   => \/ vm.pc = f.cond /\ ~Falsy(Top(vm.stack))
                      \/ Cur.op \in {"Call", "Return"}
            /\ (vm'.pc \in ElsePart(f) /\ vm.pc \notin ElsePart(f))
                   => \/ vm.pc = f.cond /\ Falsy(Top(vm.stack))
                      \/ Cur.op \in {"Call", "Return"}

\* C27: the JumpIfNot of an if targets the first instruction of the else
\* part (the end of the if when there is none) and the Jump after the then
\* part targets the instruction after the if; on the VM a truthy condition
\* enters the then part only, a falsy one the else part only, and both go
\* on at the instruction after the if, nested ifs included.
C27_IfRunsOneBranch == [](IfJumpsPlaced) /\ [][IfStep]_vars

\* the VM is in the else part of an if that stands in the then part of
\* another if, having just taken the inner conditional jump
C27_Witness ==
    /\ ~compiler.panicked
    /\ \E f, g \in IfSites :
           /\ g.cond \in ThenPart(f) /\ g.has_else /\ f.has_else
           /\ obs.prev_pc = g.cond /\ vm.pc = g.else_addr
           /\ vm.pc \in ElsePart(g) /\ vm.status = "running"

(***************************************************************************)
(* Loop jumps and procedure bodies (checked under Spec).                   *)
(***************************************************************************)
\* the procedures whose body includes address a
ProcsAround(a) == {p \in ProcSites : p.entry <= a /\ a < p.end}

LoopJumpSites == BreakSites \cup ContSites

\* C31: the Jump emitted for a break or a continue targets an address in
\* the same procedure bodies as the jump itself, and executing it leaves
\* the VM in the same procedure bodies.
C31_LoopJumpsStayInProcedure ==
    ~compiler.panicked =>
        /\ \A a \in LoopJumpSites :
               ProcsAround(Instructions[a + 1].a) = ProcsAround(a)
        /\ (obs.prev_pc \in LoopJumpSites /\ vm.steps > 0)
               => ProcsAround(vm.pc) = ProcsAround(obs.prev_pc)

(***************************************************************************)
(* return and continue inside loops of the Runtime (checked under SpecRT). *)
(***************************************************************************)
\* the steps that run a node
NodeEvents ==
    {"literal", "operation", "builtin", "call", "symbol", "if", "loop",
     "array", "let", "aslet", "skip"}

\* C32: once return has executed inside a loop within a procedure call, the
\* loop runs no further node and starts no further iteration: every step
\* taken with proc_return set inside such a loop leaves a block, the loop or
\* the procedure.
C32_ReturnEndsLoop ==
    (hist.pre.proc_return /\ hist.pre.in_proc_loop
     /\ hist.pre.status = "running")
        => hist.event \in {"block_end", "loop_end", "proc_end", "cutoff"}

\* C33: once continue has executed inside a loop no further node of that
\* iteration runs; an iteration begins with loop_continue false; after a
\* loop has finished loop_break and loop_continue are false.
C33_ContinueSkipsRest ==
    /\ (hist.pre.loop_continue /\ hist.pre.in_loop /\ hist.pre.status = "running")
           => hist.event \notin NodeEvents
    /\ hist.event = "loop_again" => ~rt.loop_continue
    /\ hist.event = "loop_end" => ~rt.loop_break /\ ~rt.loop_continue

(***************************************************************************)
(* Procedure calls of the Runtime (checked under SpecRT).                  *)
(***************************************************************************)
NotFailed == rt.status \in {"running", "done", "cutoff", "exit"}

\* C36: in a run that has not failed recursion_depth is the number of
\* procedure calls in progress and is below MAX_RECURSION_DEPTH; a call
\* that would raise it to the limit fails with RecursionDepthOverflow;
\* after a call has returned recursion_depth is what it was before the call.
C36_BoundedRecursion ==
    /\ NotFailed => /\ rt.recursion_depth = ProcFrames(rt)
                    /\ rt.recursion_depth < MaxRecursionDepth
    /\ (hist.event = "call"
        /\ hist.pre.recursion_depth + 1 >= MaxRecursionDepth)
           => rt.status = "error" /\ rt.error.kind = "RecursionDepthOverflow"
    /\ hist.event = "proc_end"
           => rt.recursion_depth = hist.returned.recursion_depth

\* a call made inside another call has returned through return
C36_Witness ==
    /\ hist.event = "proc_end" /\ hist.pre.proc_return
    /\ hist.returned.recursion_depth >= 1
    /\ rt.recursion_depth = hist.returned.recursion_depth
    /\ rt.status = "running"

\* a call at the limit has failed
C36_WitnessOverflow ==
    /\ hist.event = "call" /\ rt.status = "error"
    /\ rt.error.kind = "RecursionDepthOverflow"

\* C37: after a procedure call has returned the filename is the one in
\* effect immediately before the call.
C37_CallRestoresFilename ==
    hist.event = "proc_end" => rt.filename = hist.returned.filename

(***************************************************************************)
(* The string buffer of the Runtime (checked under SpecRT).                *)
(***************************************************************************)
MapValues(m) == {m[x] : x \in DOMAIN m}
SeqValues(seq) == {seq[i] : i \in 1..Len(seq)}

\* the values held on the operand stack, in variables, in definitions and
\* in arrays
HeldValues(r) ==
    SeqValues(r.stack) \cup MapValues(r.globals) \cup MapValues(r.defs)
    \cup UNION {MapValues(r.locals[i]) : i \in 1..Len(r.locals)}
    \cup UNION {SeqValues(r.arrays[i]) : i \in 1..Len(r.arrays)}

\* the steps that go from one Runtime to another (into and out of an import)
SwitchesRuntime ==
    \/ hist.event = "import_end"
    \/ hist.event = "prepopulate" /\ hist.node.k = "Import"

\* C38: string_ptr does not exceed STR_CAPACITY, no step of a Runtime
\* lowers it, and every String(ptr, size) the Runtime holds lies in the
\* part of the buffer that has been written: ptr + size <= string_ptr.
C38_StringBufferInvariant ==
    /\ rt.string_ptr <= StrCapacity
    /\ ~SwitchesRuntime => Len(hist.pre.string_buffer) <= rt.string_ptr
    /\ \A d \in HeldValues(rt) : d.t = "string" => d.v + d.w <= rt.string_ptr

(***************************************************************************)
(* Imports of the Runtime (checked under SpecRT).                          *)
(***************************************************************************)
\* the files whose import is in progress, outermost first: each Runtime
\* that waits in `import` for the Runtime of the file it imports, then the
\* file of the Runtime that runs
FilesInProgress(r) ==
    [i \in 1..Len(r.outer) |-> r.outer[i].root_filename] \o <<r.root_filename>>

\* C39: import resolution terminates: a file that imports itself, directly
\* or through other files, gets an import error; so no file is opened by
\* an import while it is itself still being processed, and the nesting of
\* imports is bounded by the number of files.
C39_ImportsTerminate ==
    \A i, j \in 1..Len(FilesInProgress(rt)) :
        i < j => FilesInProgress(rt)[i] # FilesInProgress(rt)[j]

(***************************************************************************)
(* Totality of the compiler over the trees of the parser (under Spec).     *)
(***************************************************************************)
\* C34: compiling a tree that the parser returns never reaches the
\* unimplemented!() arm of compile_block nor the unreachable! arm of
\* Op::from_opkind; a `for VAR ... end` block is compiled.
C34_CompilerTotal ==
    ~compiler.panicked

(***************************************************************************)
(* The texts of numeric tokens (checked under SpecLex).                    *)
(***************************************************************************)
\* str::parse::<i64> succeeds on a text of the lexer: an optional sign and
\* digits only, at least one; a text of fewer than 19 digits is in the
\* range of an i64, and no text of the model is longer
ParsesAsInt(value) ==
    LET cs == chars(value)
        signed == Len(cs) > 0 /\ cs[1] \in {"-", "+"}
        ds == IF signed THEN Tail(cs) ELSE cs
    IN  /\ Len(ds) > 0 /\ Len(ds) < 19
        /\ \A i \in 1..Len(ds) : ds[i] \in AsciiDigits

\* C35: every token of kind Int has a text that parses as an i64 and every
\* token of kind Float a text that parses as an f64 (at least one digit, at
\* most one `.`), so the unwraps of parse_expr cannot fail.
C35_NumericTokensParse ==
    \A i \in 1..Len(lexer.tokens) :
        /\ lexer.tokens[i].kind = "Int" => ParsesAsInt(lexer.tokens[i].value)
        /\ lexer.tokens[i].kind = "Float" => parse_float(lexer.tokens[i].value).ok


====
